---- MODULE Spec2Model ----
(***************************************************************************)
(* Update ingestion engine of telegram-rustevalbot: the long-poll stream   *)
(* (src/src/bot.rs, UpdateStream), the driver with its backoff             *)
(* (src/src/bot_runner.rs, BotRun), the shutdown broadcaster               *)
(* (src/src/shutdown.rs) with the threads that fire it (src/src/signal.rs, *)
(* src/src/upgrade.rs), and the task tracker (src/src/task_tracker.rs).    *)
(*                                                                         *)
(* One step of the model is one iteration of the `loop` of BotRun::poll,   *)
(* together with the whole UpdateStream::poll call it makes.  What the     *)
(* futures polled inside it answer (the delay, the pending getUpdates      *)
(* request, a request created in this call) is drawn from small sets.      *)
(***************************************************************************)
EXTENDS Integers, Sequences, FiniteSets, TLC

\* ------------------------------------------------------------------ bounds
MaxId == 2          \* update ids the upstream may return: 1..MaxId
MaxBatch == 2       \* longest batch one getUpdates answer holds
MaxEvents == 2      \* updates decoded in one run
MaxStreak == 2      \* longest run of stream errors under Spec
MaxTasks == 2       \* tasks spawned through one TaskSpawner
MaxOutput == 4      \* longest output given to truncate_output, in chars
MaxLines == 2       \* largest max_lines given to truncate_output
MaxColumns == 5     \* largest max_total_columns given to truncate_output
MaxFlags == 2       \* flags written in one /eval command

\* ------------------------------------------------------- program constants
RetryCap == 13              \* bot_runner.rs: `if self.retried >= 13`
TELEGRAM_TIMEOUT_SECS == 5  \* bot.rs: const TELEGRAM_TIMEOUT_SECS

\* ------------------------------------------------------------------ Option
None == <<>>
Some(x) == <<x>>
IsSome(o) == o # <<>>
Unwrap(o) == o[1]
unwrap_or(o, d) == IF IsSome(o) THEN Unwrap(o) ELSE d

\* ------------------------------------------------- serde_json::Value model
\* A response body is either bytes that are no JSON at all, or a JSON value.
JInvalid == [t |-> "invalid"]
JNull == [t |-> "null"]
JBool(b) == [t |-> "bool", v |-> b]
JInt(n) == [t |-> "int", v |-> n]
JFloat == [t |-> "float"]
JStr(s) == [t |-> "str", v |-> s]
JArr(items) == [t |-> "arr", v |-> items]
JObj(map) == [t |-> "obj", v |-> map]

\* as_bool taking any value that is not a boolean for true.
as_bool_Lenient(v) == IF v.t = "bool" THEN Some(v.v) ELSE Some(TRUE)

as_bool(v) == IF v.t = "bool" THEN Some(v.v) ELSE None
as_array(v) == IF v.t = "arr" THEN Some(v.v) ELSE None
as_object(v) == IF v.t = "obj" THEN Some(v.v) ELSE None
as_i64(v) == IF v.t = "int" THEN Some(v.v) ELSE None
get(map, key) == IF key \in DOMAIN map THEN Some(map[key]) ELSE None
\* first() in place of last().
last_First(arr) == IF arr = <<>> THEN None ELSE Some(arr[1])

last(arr) == IF arr = <<>> THEN None ELSE Some(arr[Len(arr)])

\* ------------------------------------------------------------- bot::Error
ErrRequest == [kind |-> "Request"]
ErrApi == [kind |-> "Api"]
ErrTimer == [kind |-> "Timer"]
ErrParse(data) == [kind |-> "Parse", data |-> data]


\* ------------------------------------------------- what the upstream sends
IdSet == 1..MaxId

\* A decoded batch: update ids in ascending order (Vec<Update>).
Batches == {b \in UNION {[1..n -> IdSet] : n \in 0..MaxBatch} :
              \A i \in 1..Len(b) - 1 : b[i] < b[i + 1]}

Item(id) == JObj([update_id |-> JInt(id)])

\* Bodies that failed the typed decoding (ParseError.data).
RecoverableBodies ==
    {JObj([ok |-> JBool(TRUE), result |-> JArr(<<Item(v)>>)]) : v \in IdSet}
    \cup {JObj([ok |-> JBool(TRUE), result |-> JArr(<<JNull, Item(v)>>)]) : v \in IdSet}
OtherBodies ==
    { JInvalid,
      JArr(<<Item(1)>>),
      JObj([result |-> JArr(<<Item(1)>>)]),
      JObj([ok |-> JBool(FALSE), result |-> JArr(<<Item(1)>>)]),
      JObj([ok |-> JStr("true"), result |-> JArr(<<Item(1)>>)]),
      JObj([ok |-> JBool(TRUE)]),
      JObj([ok |-> JBool(TRUE), result |-> Item(1)]),
      JObj([ok |-> JBool(TRUE), result |-> JArr(<<>>)]),
      JObj([ok |-> JBool(TRUE), result |-> JArr(<<Item(1), JInt(2)>>)]),
      JObj([ok |-> JBool(TRUE), result |-> JArr(<<Item(1), JObj([id |-> JInt(2)])>>)]),
      JObj([ok |-> JBool(TRUE), result |-> JArr(<<Item(1), JObj([update_id |-> JFloat])>>)]) }
Bodies == RecoverableBodies \cup OtherBodies

\* BotRequest::execute: the errors of the inner future of a request.
InnerErrors == {ErrRequest, ErrApi} \cup {ErrParse(d) : d \in Bodies}

\* What polling a request future (Timeout<execute()>) can answer.
NotReady == [kind |-> "NotReady"]
Ready(updates) == [kind |-> "Ok", updates |-> updates]
ErrInner(e) == [kind |-> "Err", error |-> e]
ErrTimerPoll == [kind |-> "TimerErr"]
ErrElapsed == [kind |-> "Elapsed"]
RequestResults ==
    {NotReady, ErrTimerPoll, ErrElapsed}
    \cup {Ready(b) : b \in Batches} \cup {ErrInner(e) : e \in InnerErrors}
\* First poll of a request made in this call: the exchange cannot be over
\* yet, but a request that failed to build errs at once (execute, Either::B).
FreshResults == {NotReady, ErrInner(ErrRequest)}
\* What polling the backoff Delay can answer.
DelayResults == {"NotReady", "Ready", "Err"}

\* What handle_update finds in an update (may_handle_common_command): its
\* kind, the type of the chat, the text (a sequence of atoms: "sp" and "nl"
\* are whitespace chars, the others words) and the sender of the message.
\* Nothing reads an update before handle_update does, so its content is
\* drawn when it is handled.
Users == {"admin", "other"}
Texts ==
    {<<"/shutdown">>, <<"sp", "/shutdown", "nl">>, <<"/shutdown", "sp", "now">>,
     <<"/about">>, <<"/about", "sp">>, <<"hi">>}
Messages ==
    [kind : {"Message", "EditedMessage"}, chat : {"private", "group"},
     text : {None} \cup {Some(t) : t \in Texts},
     from : {None} \cup {Some(u) : u \in Users}]

\* An ordinary message, /about and /shutdown of the admin, in private chats.
TextUpdate ==
    [kind |-> "Message", chat |-> "private", text |-> Some(<<"hi">>),
     from |-> Some("other")]
AboutUpdate ==
    [kind |-> "Message", chat |-> "private", text |-> Some(<<"/about">>),
     from |-> Some("other")]
ShutdownUpdate ==
    [kind |-> "Message", chat |-> "private", text |-> Some(<<"/shutdown">>),
     from |-> Some("admin")]
Contents == {TextUpdate, AboutUpdate, ShutdownUpdate}

\* The end-to-end scenario of the specification (section 8): a batch with the
\* ids 10, 11, 12, a long-poll timeout, a decode error whose body ends in id
\* 15, and an error the specification calls fatal (transport or API).
ScenarioBatch == <<10, 11, 12>>
ScenarioBody == JObj([ok |-> JBool(TRUE), result |-> JArr(<<JNull, Item(15)>>)])
Scenario ==
    << {Ready(ScenarioBatch)},
       {ErrElapsed},
       {ErrInner(ErrParse(ScenarioBody))},
       {ErrInner(ErrRequest), ErrInner(ErrApi)} >>

\* ------------------------------------------------------------------- state
VARIABLES
    update_id,        \* UpdateStream.update_id : Option<UpdateId>
    buffer,           \* UpdateStream.buffer : VecDeque<Update> (the ids)
    current_request,  \* UpdateStream.current_request : Option<PendingFuture>
    stop_signal,      \* UpdateStream.stop_signal : has the Receiver a value
    queue,            \* Shutdown.queue : Option<Vec<Sender>>
    retried,          \* BotRun.retried
    delay,            \* BotRun.delay : Option<Delay>, the seconds it sleeps
    pc,               \* the BotRun future: "run", "done" (Ok) or "failed" (Err)
    \* what the run has done so far (observations, not program state)
    result,           \* what the last UpdateStream::poll returned (errors by kind)
    trace,            \* what the last step did with requests, in order:
                      \* "made" one, or took the answer of one (its kind)
    reported,         \* kind of the error the last step gave to report_error
    dispatched,       \* updates handed to handle_update, in order
    handled,          \* the update the last step handed to handle_update and
                      \* its content, if it handed one
    received,         \* updates decoded from batches, in order
    lastFetch,        \* the latest getUpdates request made and how it ended
    batchLens,        \* lengths of the last two decoded batches, oldest first
    inflight,         \* requests made and neither completed nor dropped
    honest,           \* every answer so far held only ids >= the offset asked
    errStreak,        \* stream errors since the stream last returned Ready
    delays,           \* the delays scheduled in this streak, in order
    scenario,         \* how far the fetch outcomes have followed Scenario
    \* the shutdown broadcaster and what runs around the driver
    notified,         \* per receiver, who sent a value into it, in order
    registered,       \* the receivers register() has returned
    called,           \* who has called Shutdown::shutdown so far
    handlers,         \* handler futures spawned by handle_update, still running
    confirm,          \* the request of the confirm_update future, once spawned
    mainPc,           \* main: "wait" in shutdown_on_idle().wait(), then "bye"
    \* the task tracker
    tasks,            \* each task: "new", "running", "ended" or "panicked"
    channel,          \* the TaskState messages sent and not yet received
    counter,          \* the local `counter` of TaskWaiter::wait
    waiter,           \* wait(): "idle" (not called), "waiting" or "returned"
    lateSpawn,        \* a task was spawned after wait() was called
    \* a second engine of the process
    peer,             \* the BotRun of another bot, sharing the Shutdown
    \* the functions of the commands
    call              \* a call of one of them: its arguments and what it returned

streamVars == <<update_id, buffer, current_request, retried, delay, pc, result,
                trace, reported, dispatched, handled, received, lastFetch, batchLens,
                inflight, honest, errStreak, delays, scenario>>
shutdownVars == <<stop_signal, queue, notified, called>>
trackerVars == <<tasks, channel, counter, waiter, lateSpawn>>
vars == <<streamVars, shutdownVars, registered, handlers, confirm, mainPc,
          trackerVars, peer, call>>

\* ----------------------------------------------- observations of a request
Rank(offset) == unwrap_or(offset, 0)

\* The id a body's result array ends in, read off the shape of the body.
BodyLastId(body) ==
    IF body.t # "obj" THEN None
    ELSE IF ~({"ok", "result"} \subseteq DOMAIN body.v) THEN None
    ELSE IF body.v.ok.t # "bool" \/ body.v.result.t # "arr" THEN None
    ELSE IF ~body.v.ok.v \/ body.v.result.v = <<>> THEN None
    ELSE LET item == body.v.result.v[Len(body.v.result.v)] IN
         IF item.t # "obj" THEN None
         ELSE IF "update_id" \notin DOMAIN item.v THEN None
         ELSE IF item.v.update_id.t # "int" THEN None
         ELSE Some(item.v.update_id.v)

\* Every update id an answer carries.
ReturnedIds(res) ==
    IF res.kind = "Ok" THEN {res.updates[i] : i \in 1..Len(res.updates)}
    ELSE IF res.kind = "Err" /\ res.error.kind = "Parse"
    THEN LET body == res.error.data IN
         IF body.t = "obj" /\ "result" \in DOMAIN body.v /\ body.v.result.t = "arr"
         THEN LET arr == body.v.result.v
                  withId == {i \in 1..Len(arr) :
                               /\ arr[i].t = "obj"
                               /\ "update_id" \in DOMAIN arr[i].v
                               /\ arr[i].v.update_id.t = "int"}
              IN {arr[i].v.update_id.v : i \in withId}
         ELSE {}
    ELSE {}

OutcomeKind(res) ==
    CASE res.kind = "Ok" -> IF res.updates = <<>> THEN "empty" ELSE "batch"
      [] res.kind = "Elapsed" -> "timeout"
      [] res.kind = "TimerErr" -> "timer"
      [] res.kind = "Err" -> res.error.kind
      [] OTHER -> "pending"

OutcomeLastId(res) ==
    IF res.kind = "Ok" THEN last(res.updates)
    ELSE IF res.kind = "Err" /\ res.error.kind = "Parse" THEN BodyLastId(res.error.data)
    ELSE None

\* The scenario followed one outcome further by a request that ended in res:
\* the offsets of the requests that followed it so far, while it is followed.
Followed(sc, request, res) ==
    LET n == Len(sc.offsets) IN
    IF sc.on /\ n < Len(Scenario) /\ res \in Scenario[n + 1]
    THEN [on |-> TRUE, offsets |-> Append(sc.offsets, Rank(request.offset))]
    ELSE [on |-> FALSE, offsets |-> <<>>]

Issued(s, request) ==
    [s EXCEPT !.lastFetch = Some([offset |-> request.offset, kind |-> "pending",
                                  lastId |-> None]),
              !.trace = Append(@, "made"),
              !.inflight = @ + 1]

Completed(s, request, res) ==
    IF res.kind = "NotReady" THEN s
    ELSE [s EXCEPT !.lastFetch = Some([offset |-> request.offset,
                                       kind |-> OutcomeKind(res),
                                       lastId |-> OutcomeLastId(res)]),
                   !.inflight = @ - 1,
                   !.trace = Append(@, OutcomeKind(res)),
                   !.received = IF res.kind = "Ok" THEN @ \o res.updates ELSE @,
                   !.batchLens = IF res.kind = "Ok" THEN <<@[2], Len(res.updates)>> ELSE @,
                   !.honest = @ /\ \A id \in ReturnedIds(res) : id >= Rank(request.offset),
                   !.scenario = Followed(@, request, res)]

\* ------------------------------------------------------------ UpdateStream
\* bump_update_id storing the id itself.
bump_update_id_NoSucc(id) == Some(id)

\* bump_update_id skipping one id.
bump_update_id_Twice(id) == Some(id + 2)

bump_update_id(id) == Some(id + 1)

\* may_recover_from_error that never touches the cursor.
may_recover_from_error_Never(uid, error) == uid

may_recover_from_error(uid, error) ==
    IF error.kind # "Parse" THEN uid
    ELSE LET value == error.data IN
         IF value.t = "invalid" THEN uid
         ELSE IF value.t # "obj" THEN uid
         ELSE LET and_then(o, F(_)) == IF IsSome(o) THEN F(Unwrap(o)) ELSE None
                  map == value.v
                  ok == and_then(get(map, "ok"), as_bool)
                  get_update_id(m) == get(m, "update_id")
                  v == and_then(and_then(and_then(and_then(and_then(
                           get(map, "result"), as_array), last), as_object),
                           get_update_id), as_i64)
              IN IF ~unwrap_or(ok, FALSE) THEN uid
                 ELSE IF IsSome(v) THEN bump_update_id(Unwrap(v)) ELSE uid

\* confirm_update with the id itself as the offset.
confirm_update_NoSucc(id) == [offset |-> Some(id)]

\* confirm_update that also confirms the update after the given one.
confirm_update_SkipNext(id) == [offset |-> Some(id + 2)]

\* Bot::confirm_update: a getUpdates request with offset update_id + 1.
confirm_update(id) == [offset |-> Some(id + 1)]

\* A request that never carries an offset.
get_updates_request_NoOffset(uid) ==
    [offset |-> None, timeout |-> TELEGRAM_TIMEOUT_SECS,
     client_timeout |-> TELEGRAM_TIMEOUT_SECS]

\* GetUpdates::new() with the offset and the timeouts of UpdateStream::poll.
get_updates_request(uid) ==
    [offset |-> uid, timeout |-> TELEGRAM_TIMEOUT_SECS,
     client_timeout |-> TELEGRAM_TIMEOUT_SECS]

\* A request made on every turn of the loop, pending one or not.
NeedsNewRequest_Always(cur) == TRUE

\* current_request.take().unwrap_or_else(..): is a request to be made.
NeedsNewRequest(cur) == cur = None

\* The request put back whatever its poll returned.
KeepRequest_Always(request, res) == Some(request)

\* self.current_request after request.poll(): only a pending one is kept.
KeepRequest(request, res) == IF res.kind = "NotReady" THEN Some(request) ELSE None

\* front() in place of pop_front(): the update stays in the buffer.
pop_front_Peek(buf) == [item |-> Head(buf), rest |-> buf]

\* pop_back() in place of pop_front().
pop_front_Back(buf) == [item |-> buf[Len(buf)], rest |-> SubSeq(buf, 1, Len(buf) - 1)]

\* self.buffer.pop_front(), for a buffer that is not empty.
pop_front(buf) == [item |-> Head(buf), rest |-> Tail(buf)]

ResNone == [kind |-> "None"]
ResNotReady == [kind |-> "NotReady"]
ResUpdate(u) == [kind |-> "Update", update |-> u]
ResEnd == [kind |-> "End"]
ResErr(e) == [kind |-> "Err", error |-> e]

\* The `loop` of UpdateStream::poll.  rres answers the poll of the request
\* that was pending, fresh the poll of a request made in this call.
RECURSIVE StreamLoop(_, _, _)
StreamLoop(s, rres, fresh) ==
    IF s.buffer # <<>>
    THEN [s EXCEPT !.buffer = pop_front(s.buffer).rest,
                   !.result = ResUpdate(pop_front(s.buffer).item)]
    ELSE LET isNew == NeedsNewRequest(s.current_request)
             request == IF isNew THEN get_updates_request(s.update_id)
                        ELSE Unwrap(s.current_request)
             taken == [s EXCEPT !.current_request = None]
             res == IF isNew THEN fresh ELSE rres
             s1 == Completed(IF isNew THEN Issued(taken, request) ELSE taken,
                             request, res)
             s2 == [s1 EXCEPT !.current_request = KeepRequest(request, res)]
         IN CASE res.kind = "Ok" ->
                   StreamLoop([s2 EXCEPT
                       !.update_id = IF res.updates # <<>>
                                     THEN bump_update_id(Unwrap(last(res.updates)))
                                     ELSE @,
                       !.buffer = res.updates], rres, fresh)
              [] res.kind = "NotReady" -> [s2 EXCEPT !.result = ResNotReady]
              [] res.kind = "Err" ->
                   [s2 EXCEPT !.update_id = may_recover_from_error(@, res.error),
                              !.result = ResErr(res.error)]
              [] res.kind = "TimerErr" -> [s2 EXCEPT !.result = ResErr(ErrTimer)]
              [] res.kind = "Elapsed" -> StreamLoop(s2, rres, fresh)

\* UpdateStream::poll that heeds the stop signal only with a request pending.
Stream_poll_StopWhenPending(s, stop, rres, fresh) ==
    IF stop /\ IsSome(s.current_request) THEN [s EXCEPT !.result = ResEnd]
    ELSE StreamLoop(s, rres, fresh)

\* UpdateStream::poll without the test of the stop signal.
Stream_poll_IgnoreStop(s, stop, rres, fresh) == StreamLoop(s, rres, fresh)

\* UpdateStream::poll that returns the elapsed timeout of the pending request
\* as an error of the timer.
Stream_poll_TimeoutIsError(s, stop, rres, fresh) ==
    IF stop THEN [s EXCEPT !.result = ResEnd]
    ELSE IF s.buffer = <<>> /\ IsSome(s.current_request) /\ rres.kind = "Elapsed"
    THEN [Completed([s EXCEPT !.current_request = None],
                    Unwrap(s.current_request), rres)
            EXCEPT !.result = ResErr(ErrTimer)]
    ELSE StreamLoop(s, rres, fresh)

\* UpdateStream::poll that ends the stream on an error of a request.
Stream_poll_EndOnError(s, stop, rres, fresh) ==
    IF stop THEN [s EXCEPT !.result = ResEnd]
    ELSE IF StreamLoop(s, rres, fresh).result.kind = "Err"
    THEN [StreamLoop(s, rres, fresh) EXCEPT !.result = ResEnd]
    ELSE StreamLoop(s, rres, fresh)

\* UpdateStream::poll
Stream_poll(s, stop, rres, fresh) ==
    IF stop THEN [s EXCEPT !.result = ResEnd] ELSE StreamLoop(s, rres, fresh)

\* ---------------------------------------------------------------- Shutdown
\* The receivers register() hands out: the one of this engine's stream and
\* those of the other callers in the process.
OtherReceivers == {"second", "third"}
Receivers == {"stream"} \cup OtherReceivers

\* The callers of Shutdown::shutdown: the signal thread, the upgrade watcher
\* and the /shutdown command of this engine.
Callers == {"signal", "upgrade", "command"}

\* sender.send(()) for each sender of q, made by `by`: "shutdown" or "register".
Notify(q, n, by) == [w \in DOMAIN n |-> IF w \in q THEN Append(n[w], by) ELSE n[w]]

\* shutdown() that leaves the queue in place after sending.
shutdown_KeepQueue(caller) ==
    /\ called' = called \cup {caller}
    /\ IF IsSome(queue)
       THEN /\ queue' = queue
            /\ notified' = Notify(Unwrap(queue), notified, "shutdown")
            /\ stop_signal' = (stop_signal \/ "stream" \in Unwrap(queue))
       ELSE UNCHANGED <<queue, notified, stop_signal>>

\* Shutdown::shutdown called by `caller`: take the queue out of the mutex and
\* send to every sender of it; nothing to do when the queue is gone already.
shutdown(caller) ==
    /\ called' = called \cup {caller}
    /\ IF IsSome(queue)
       THEN /\ queue' = None
            /\ notified' = Notify(Unwrap(queue), notified, "shutdown")
            /\ stop_signal' = (stop_signal \/ "stream" \in Unwrap(queue))
       ELSE UNCHANGED <<queue, notified, stop_signal>>

\* register() that enqueues nothing and sends nothing once the queue is gone.
register_Lost(w) ==
    /\ w \notin registered
    /\ registered' = registered \cup {w}
    /\ IF IsSome(queue)
       THEN queue' = Some(Unwrap(queue) \cup {w})
       ELSE queue' = queue
    /\ UNCHANGED <<notified, streamVars, stop_signal, called, handlers, confirm,
                   mainPc, trackerVars, peer, call>>

\* Shutdown::register for the receiver w of another caller: under the mutex,
\* push the sender, or send at once when the queue is gone.
register(w) ==
    /\ w \notin registered
    /\ registered' = registered \cup {w}
    /\ IF IsSome(queue)
       THEN /\ queue' = Some(Unwrap(queue) \cup {w})
            /\ notified' = notified
       ELSE /\ queue' = queue
            /\ notified' = Notify({w}, notified, "register")
    /\ UNCHANGED <<streamVars, stop_signal, called, handlers, confirm, mainPc,
                   trackerVars, peer, call>>

\* signal::init, the thread: shutdown() on SIGINT or SIGTERM, then break.
signal_init ==
    /\ "signal" \notin called
    /\ shutdown("signal")
    /\ UNCHANGED <<streamVars, registered, handlers, confirm, mainPc, trackerVars,
                   peer, call>>

\* upgrade::watch_notify_file: shutdown() on a Modify event, then break.
watch_notify_file ==
    /\ "upgrade" \notin called
    /\ shutdown("upgrade")
    /\ UNCHANGED <<streamVars, registered, handlers, confirm, mainPc, trackerVars,
                   peer, call>>

\* ------------------------------------------------------------------ BotRun
\* A delay that grows by one second per retry.
Backoff_Linear(n) == n + 1

\* Duration::from_secs(1 << self.retried)
Backoff(n) == 2 ^ n

\* A driver that never gives up.
RetryExhausted_Never(n) == FALSE

\* `>` in place of `>=`.
RetryExhausted_OffByOne(n) == n > RetryCap

\* `if self.retried >= 13`
RetryExhausted(n) == n >= RetryCap

\* self.retried after the stream returned Ok(Async::Ready(_)).
RetriedAfterReady(n) == 0

\* The match with a transport error ending the driver at once.
AfterStreamPoll_FatalTransport(res, n) ==
    CASE res.kind = "NotReady" ->
           [retried |-> n, delay |-> None, pc |-> "run",
            handled |-> None, reported |-> None]
      [] res.kind = "Update" ->
           [retried |-> RetriedAfterReady(n), delay |-> None, pc |-> "run",
            handled |-> Some(res.update), reported |-> None]
      [] res.kind = "End" ->
           [retried |-> RetriedAfterReady(n), delay |-> None, pc |-> "done",
            handled |-> None, reported |-> None]
      [] res.kind = "Err" ->
           IF RetryExhausted(n) \/ res.error.kind = "Request"
           THEN [retried |-> n, delay |-> None, pc |-> "failed",
                 handled |-> None, reported |-> Some(res.error)]
           ELSE [retried |-> n + 1, delay |-> Some(Backoff(n)), pc |-> "run",
                 handled |-> None, reported |-> Some(res.error)]

\* The match with the end of the stream not ending the driver.
AfterStreamPoll_EndRuns(res, n) ==
    CASE res.kind = "NotReady" ->
           [retried |-> n, delay |-> None, pc |-> "run",
            handled |-> None, reported |-> None]
      [] res.kind = "Update" ->
           [retried |-> RetriedAfterReady(n), delay |-> None, pc |-> "run",
            handled |-> Some(res.update), reported |-> None]
      [] res.kind = "End" ->
           [retried |-> RetriedAfterReady(n), delay |-> None, pc |-> "run",
            handled |-> None, reported |-> None]
      [] res.kind = "Err" ->
           IF RetryExhausted(n)
           THEN [retried |-> n, delay |-> None, pc |-> "failed",
                 handled |-> None, reported |-> Some(res.error)]
           ELSE [retried |-> n + 1, delay |-> Some(Backoff(n)), pc |-> "run",
                 handled |-> None, reported |-> Some(res.error)]

\* BotRun::poll that returns the error that exhausts the retries without
\* reporting it.
AfterStreamPoll_NoReportAtCap(res, n) ==
    CASE res.kind = "NotReady" ->
           [retried |-> n, delay |-> None, pc |-> "run",
            handled |-> None, reported |-> None]
      [] res.kind = "Update" ->
           [retried |-> RetriedAfterReady(n), delay |-> None, pc |-> "run",
            handled |-> Some(res.update), reported |-> None]
      [] res.kind = "End" ->
           [retried |-> RetriedAfterReady(n), delay |-> None, pc |-> "done",
            handled |-> None, reported |-> None]
      [] res.kind = "Err" ->
           IF RetryExhausted(n)
           THEN [retried |-> n, delay |-> None, pc |-> "failed",
                 handled |-> None, reported |-> None]
           ELSE [retried |-> n + 1, delay |-> Some(Backoff(n)), pc |-> "run",
                 handled |-> None, reported |-> Some(res.error)]

\* The arms of `match self.stream.poll()` in BotRun::poll: the driver's
\* fields after the arm, and what it handed to handle_update / report_error.
AfterStreamPoll(res, n) ==
    CASE res.kind = "NotReady" ->
           [retried |-> n, delay |-> None, pc |-> "run",
            handled |-> None, reported |-> None]
      [] res.kind = "Update" ->
           [retried |-> RetriedAfterReady(n), delay |-> None, pc |-> "run",
            handled |-> Some(res.update), reported |-> None]
      [] res.kind = "End" ->
           [retried |-> RetriedAfterReady(n), delay |-> None, pc |-> "done",
            handled |-> None, reported |-> None]
      [] res.kind = "Err" ->
           IF RetryExhausted(n)
           THEN [retried |-> n, delay |-> None, pc |-> "failed",
                 handled |-> None, reported |-> Some(res.error)]
           ELSE [retried |-> n + 1, delay |-> Some(Backoff(n)), pc |-> "run",
                 handled |-> None, reported |-> Some(res.error)]

\* What is kept of a stream result: an error by its kind only.
Observed(res) == IF res.kind = "Err" THEN [kind |-> "Err", error |-> res.error.kind] ELSE res

StreamState ==
    [update_id |-> update_id, buffer |-> buffer, current_request |-> current_request,
     inflight |-> inflight, batchLens |-> batchLens, lastFetch |-> lastFetch,
     received |-> received, honest |-> honest, scenario |-> scenario,
     trace |-> <<>>, result |-> ResNone]

\* str::trim: the text without the whitespace at its ends.
RECURSIVE trim(_)
trim(text) ==
    IF text = <<>> THEN text
    ELSE IF Head(text) \in {"sp", "nl"} THEN trim(Tail(text))
    ELSE IF text[Len(text)] \in {"sp", "nl"} THEN trim(SubSeq(text, 1, Len(text) - 1))
    ELSE text

\* may_handle_common_command that takes /shutdown from any sender.
common_command_AnySender(content) ==
    IF content.kind # "Message" THEN "none"
    ELSE IF content.chat # "private" THEN "none"
    ELSE IF content.text = None THEN "none"
    ELSE IF trim(Unwrap(content.text)) = <<"/about">> THEN "about"
    ELSE IF trim(Unwrap(content.text)) = <<"/shutdown">> THEN "shutdown"
    ELSE "none"

\* The arm may_handle_common_command takes for an update: "about",
\* "shutdown", or "none" where it returns false.
common_command(content) ==
    IF content.kind # "Message" THEN "none"
    ELSE IF content.chat # "private" THEN "none"
    ELSE IF content.text = None THEN "none"
    ELSE IF trim(Unwrap(content.text)) = <<"/about">> THEN "about"
    ELSE IF trim(Unwrap(content.text)) = <<"/shutdown">>
    THEN (IF content.from = Some("admin") THEN "shutdown" ELSE "none")
    ELSE "none"

\* may_handle_common_command that answers no update itself.
may_handle_common_command_Never(content) == FALSE

\* may_handle_common_command: is the update one of the common commands.
may_handle_common_command(content) == common_command(content) # "none"

\* handle_update without the call of shutdown().
handle_update_NoShutdown(update, content) ==
    /\ handlers' = IF may_handle_common_command(content) THEN handlers ELSE handlers + 1
    /\ UNCHANGED <<shutdownVars, confirm>>

\* handle_update that waits for the handler it spawned before it takes the
\* next update.
handle_update_Awaited(update, content) ==
    /\ handlers = 0
    /\ handlers' = IF may_handle_common_command(content) THEN handlers ELSE handlers + 1
    /\ IF common_command(content) = "shutdown"
       THEN /\ shutdown("command")
            /\ confirm' = Some(confirm_update(update))
       ELSE UNCHANGED <<shutdownVars, confirm>>

\* handle_update: a common command is answered here, /shutdown of the admin
\* fires the broadcaster and spawns confirm_update; any other update goes to
\* the handler, whose future is spawned.
handle_update(update, content) ==
    /\ handlers' = IF may_handle_common_command(content) THEN handlers ELSE handlers + 1
    /\ IF common_command(content) = "shutdown"
       THEN /\ shutdown("command")
            /\ confirm' = Some(confirm_update(update))
       ELSE UNCHANGED <<shutdownVars, confirm>>

\* One iteration of the `loop` of BotRun::poll.
BotRun_poll(dres, rres, fresh, content) ==
    /\ pc = "run"
    /\ IF IsSome(delay) /\ dres = "NotReady"
       THEN /\ content = TextUpdate
            /\ UNCHANGED vars
       ELSE IF IsSome(delay) /\ dres = "Err"
       THEN /\ content = TextUpdate
            /\ pc' = "failed"
            /\ current_request' = None
            /\ inflight' = 0
            /\ result' = ResNone
            /\ trace' = <<>>
            /\ reported' = None
            /\ handled' = None
            /\ UNCHANGED <<update_id, buffer, retried, delay, dispatched, received,
                           lastFetch, batchLens, honest, errStreak, delays,
                           scenario, shutdownVars, registered, handlers, confirm,
                           mainPc, trackerVars, peer, call>>
       ELSE LET sp == Stream_poll(StreamState, stop_signal, rres, fresh)
                d == AfterStreamPoll(sp.result, retried)
                dropped == d.pc # "run"
            IN /\ update_id' = sp.update_id
               /\ buffer' = sp.buffer
               /\ current_request' = IF dropped THEN None ELSE sp.current_request
               /\ inflight' = IF dropped THEN 0 ELSE sp.inflight
               /\ batchLens' = sp.batchLens
               /\ lastFetch' = sp.lastFetch
               /\ received' = sp.received
               /\ honest' = sp.honest
               /\ scenario' = sp.scenario
               /\ trace' = sp.trace
               /\ result' = Observed(sp.result)
               /\ retried' = d.retried
               /\ delay' = d.delay
               /\ pc' = d.pc
               /\ reported' = IF IsSome(d.reported) THEN Some(Unwrap(d.reported).kind)
                              ELSE None
               /\ dispatched' = IF IsSome(d.handled)
                                THEN Append(dispatched, Unwrap(d.handled))
                                ELSE dispatched
               /\ handled' = IF IsSome(d.handled)
                             THEN Some([update |-> Unwrap(d.handled),
                                        content |-> content])
                             ELSE None
               /\ errStreak' = CASE sp.result.kind = "Err" -> errStreak + 1
                                 [] sp.result.kind = "NotReady" -> errStreak
                                 [] OTHER -> 0
               /\ delays' = CASE sp.result.kind = "Err" ->
                                   IF IsSome(d.delay) THEN Append(delays, Unwrap(d.delay))
                                   ELSE delays
                              [] sp.result.kind = "NotReady" -> delays
                              [] OTHER -> <<>>
               /\ IF IsSome(d.handled)
                  THEN handle_update(Unwrap(d.handled), content)
                  ELSE /\ content = TextUpdate
                       /\ UNCHANGED <<shutdownVars, handlers, confirm>>
               /\ UNCHANGED <<registered, mainPc, trackerVars, peer, call>>

\* ------------------------------------------------------- handlers and main
\* The future of a handler, spawned by handle_update, completes.
handler_done ==
    /\ handlers > 0
    /\ handlers' = handlers - 1
    /\ UNCHANGED <<streamVars, shutdownVars, registered, confirm, mainPc, trackerVars,
                   peer, call>>

\* shutdown_on_idle that waits for the driver only.
shutdown_on_idle_DriverOnly ==
    /\ mainPc = "wait"
    /\ pc # "run"
    /\ mainPc' = "bye"
    /\ UNCHANGED <<streamVars, shutdownVars, registered, handlers, confirm, trackerVars,
                   peer, call>>

\* main: runtime.shutdown_on_idle().wait() returns once every future spawned
\* on the runtime has completed: the driver and the handlers (the futures of
\* the replies and of confirm_update are not followed here).
shutdown_on_idle ==
    /\ mainPc = "wait"
    /\ pc # "run"
    /\ handlers = 0
    /\ mainPc' = "bye"
    /\ UNCHANGED <<streamVars, shutdownVars, registered, handlers, confirm, trackerVars,
                   peer, call>>

\* ---------------------------------------------------------- a second engine
\* A second engine that also stops when the first one has failed.
PeerStop_SharedFate == notified["second"] # <<>> \/ pc = "failed"

\* The stop signal of the second engine's stream: the receiver its run() got
\* from shutdown.register().
PeerStop == notified["second"] # <<>>

\* The UpdateStream of the second engine.
PeerStream ==
    [update_id |-> peer.update_id, buffer |-> peer.buffer,
     current_request |-> peer.current_request,
     inflight |-> IF IsSome(peer.current_request) THEN 1 ELSE 0,
     batchLens |-> <<0, 0>>, lastFetch |-> None, received |-> <<>>,
     honest |-> TRUE, scenario |-> [on |-> FALSE, offsets |-> <<>>],
     trace |-> <<>>, result |-> ResNone]

\* One iteration of the `loop` of BotRun::poll of the second engine, once its
\* run() has registered with the broadcaster; its updates are ordinary ones
\* and `handled` counts those it handed to handle_update.
peer_poll(dres, rres, fresh) ==
    /\ "second" \in registered
    /\ peer.pc = "run"
    /\ IF IsSome(peer.delay) /\ dres = "NotReady"
       THEN peer' = peer
       ELSE IF IsSome(peer.delay) /\ dres = "Err"
       THEN peer' = [peer EXCEPT !.pc = "failed", !.current_request = None]
       ELSE LET sp == Stream_poll(PeerStream, PeerStop, rres, fresh)
                d == AfterStreamPoll(sp.result, peer.retried)
            IN peer' = [update_id |-> sp.update_id,
                        buffer |-> sp.buffer,
                        current_request |-> IF d.pc # "run" THEN None
                                            ELSE sp.current_request,
                        retried |-> d.retried,
                        delay |-> d.delay,
                        pc |-> d.pc,
                        handled |-> IF IsSome(d.handled) THEN peer.handled + 1
                                    ELSE peer.handled]
    /\ UNCHANGED <<streamVars, shutdownVars, registered, handlers, confirm, mainPc,
                   trackerVars, call>>

\* ------------------------------------------------------------ task tracker
Tasks == 1..MaxTasks

\* spawn that spawns the task without sending Starting.
spawn_NoStarting(t) ==
    /\ tasks[t] = "new"
    /\ waiter # "returned"
    /\ tasks' = [tasks EXCEPT ![t] = "running"]
    /\ lateSpawn' = (lateSpawn \/ waiter # "idle")
    /\ UNCHANGED <<channel, counter, waiter, streamVars, shutdownVars, registered,
                   handlers, confirm, mainPc, peer, call>>

\* TaskSpawner::spawn: send Starting, then spawn the task.  With the waiter
\* gone the send fails and the caller panics, so no task is spawned.
spawn(t) ==
    /\ tasks[t] = "new"
    /\ waiter # "returned"
    /\ tasks' = [tasks EXCEPT ![t] = "running"]
    /\ channel' = Append(channel, "Starting")
    /\ lateSpawn' = (lateSpawn \/ waiter # "idle")
    /\ UNCHANGED <<counter, waiter, streamVars, shutdownVars, registered, handlers,
                   confirm, mainPc, peer, call>>

\* The spawned task after future.await: send Ended; with the waiter gone the
\* send fails and the task panics.
task_ended(t) ==
    /\ tasks[t] = "running"
    /\ IF waiter = "returned"
       THEN /\ tasks' = [tasks EXCEPT ![t] = "panicked"]
            /\ channel' = channel
       ELSE /\ tasks' = [tasks EXCEPT ![t] = "ended"]
            /\ channel' = Append(channel, "Ended")
    /\ UNCHANGED <<counter, waiter, lateSpawn, streamVars, shutdownVars, registered,
                   handlers, confirm, mainPc, peer, call>>

\* The future of the task panics inside future.await: the rest of the async
\* block, the send of Ended, is not run.
task_panicked(t) ==
    /\ tasks[t] = "running"
    /\ tasks' = [tasks EXCEPT ![t] = "panicked"]
    /\ UNCHANGED <<channel, counter, waiter, lateSpawn, streamVars, shutdownVars,
                   registered, handlers, confirm, mainPc, peer, call>>

\* wait that returns at once when no message is waiting for it.
wait_call_ReturnIfEmpty ==
    /\ waiter = "idle"
    /\ waiter' = IF channel = <<>> THEN "returned" ELSE "waiting"
    /\ counter' = 0
    /\ UNCHANGED <<tasks, channel, lateSpawn, streamVars, shutdownVars, registered,
                   handlers, confirm, mainPc, peer, call>>

\* TaskWaiter::wait is called: `let mut counter = 0usize`.
wait_call ==
    /\ waiter = "idle"
    /\ waiter' = "waiting"
    /\ counter' = 0
    /\ UNCHANGED <<tasks, channel, lateSpawn, streamVars, shutdownVars, registered,
                   handlers, confirm, mainPc, peer, call>>

\* One turn of the loop of wait: receive a message; return when an Ended
\* brings the counter to 0.
wait_recv ==
    /\ waiter = "waiting"
    /\ channel # <<>>
    /\ channel' = Tail(channel)
    /\ IF Head(channel) = "Starting"
       THEN /\ counter' = counter + 1
            /\ waiter' = waiter
       ELSE /\ counter' = counter - 1
            /\ waiter' = IF counter - 1 = 0 THEN "returned" ELSE "waiting"
    /\ UNCHANGED <<tasks, lateSpawn, streamVars, shutdownVars, registered, handlers,
                   confirm, mainPc, peer, call>>

\* ------------------------------------------------------------------- utils
\* A string is the sequence of its chars: "a" stands for a narrow char, "W"
\* for a wide one (CJK), "nl" for the newline and "." for the full stop.
Chars == {"a", "W", "nl"}
Strings(n) == UNION {[1..k -> Chars] : k \in 0..n}
Dots == <<".", ".", ".">>

\* c.width_cjk().unwrap_or(1): a wide char takes two columns; the newline, a
\* control char, has no width and counts as one.
width_cjk(c) == IF c = "W" THEN 2 ELSE 1

\* The inner loop of truncate_output, over output[..pos] from its end: the
\* length of the prefix in front of the char at which the width of the chars
\* gone over reaches 3, if it does.
RECURSIVE TruncateBack(_, _, _)
TruncateBack(output, j, truncate_width) ==
    IF j = 0 THEN None
    ELSE IF truncate_width + width_cjk(output[j]) >= 3 THEN Some(j - 1)
    ELSE TruncateBack(output, j - 1, truncate_width + width_cjk(output[j]))

\* The loop of truncate_output from the i-th char on.
RECURSIVE TruncateLoop(_, _, _, _, _, _)
TruncateLoop(output, max_lines, max_total_columns, i, line_count, column_count) ==
    IF i > Len(output) THEN output
    ELSE LET c == output[i]
             columns == column_count + width_cjk(c)
             cut == IF columns > max_total_columns
                    THEN TruncateBack(output, i - 1, 0) ELSE None
         IN IF IsSome(cut) THEN SubSeq(output, 1, Unwrap(cut)) \o Dots
            ELSE IF c = "nl" /\ line_count + 1 = max_lines
            THEN SubSeq(output, 1, i - 1) \o Dots
            ELSE TruncateLoop(output, max_lines, max_total_columns, i + 1,
                              IF c = "nl" THEN line_count + 1 ELSE line_count,
                              columns)

\* utils::truncate_output
truncate_output(output, max_lines, max_total_columns) ==
    TruncateLoop(output, max_lines, max_total_columns, 1, 0, 0)

\* No call made, and the calls of truncate_output with their arguments.
NoCall == [fn |-> "none"]
TruncateCalls ==
    {[fn |-> "truncate_output", output |-> o, max_lines |-> l,
      max_total_columns |-> w, ret |-> None] :
        o \in Strings(MaxOutput), l \in 1..MaxLines, w \in 0..MaxColumns}

\* The call returns.
truncate_output_returns ==
    /\ call.fn = "truncate_output"
    /\ call.ret = None
    /\ call' = [call EXCEPT !.ret = Some(truncate_output(call.output,
                                 call.max_lines, call.max_total_columns))]
    /\ UNCHANGED <<streamVars, shutdownVars, registered, handlers, confirm, mainPc,
                   trackerVars, peer>>

\* ------------------------------------------------------------- eval::parse
\* A command is the sequence of its atoms: the literal "/eval", "@", "sp" (one
\* whitespace char), "--", "x" (a char that is none of these and not
\* alphanumeric) and words of alphanumeric chars; words next to each other
\* read as one longer word.
IsWord(a) == a \notin {"/eval", "@", "sp", "--", "x", "."}

\* Flags::default()
DefaultFlags ==
    [channel |-> None, edition |-> None, mode |-> None, bare |-> FALSE,
     raw |-> FALSE, version |-> FALSE, help |-> FALSE]

\* FLAG_INFO: the names of the flags and the setter of each.
FlagNames ==
    {"stable", "beta", "nightly", "2015", "2018", "2021", "debug", "release",
     "bare", "raw", "version", "help"}
setter(flags, name) ==
    CASE name = "stable" -> [flags EXCEPT !.channel = Some("Stable")]
      [] name = "beta" -> [flags EXCEPT !.channel = Some("Beta")]
      [] name = "nightly" -> [flags EXCEPT !.channel = Some("Nightly")]
      [] name = "2015" -> [flags EXCEPT !.edition = Some("2015")]
      [] name = "2018" -> [flags EXCEPT !.edition = Some("2018")]
      [] name = "2021" -> [flags EXCEPT !.edition = Some("2021")]
      [] name = "debug" -> [flags EXCEPT !.mode = Some("Debug")]
      [] name = "release" -> [flags EXCEPT !.mode = Some("Release")]
      [] name = "bare" -> [flags EXCEPT !.bare = TRUE]
      [] name = "raw" -> [flags EXCEPT !.raw = TRUE]
      [] name = "version" -> [flags EXCEPT !.version = TRUE]
      [] name = "help" -> [flags EXCEPT !.help = TRUE]

\* extend that skips a name FLAG_INFO does not have.
extend_SkipUnknown(builder, name) ==
    IF Len(name) = 1 /\ name[1] \in FlagNames
    THEN [builder EXCEPT !.flags = setter(@, name[1])]
    ELSE builder

\* FlagsBuilder::extend for one name, the words of its run.
extend(builder, name) ==
    IF Len(name) = 1 /\ name[1] \in FlagNames
    THEN [builder EXCEPT !.flags = setter(@, name[1])]
    ELSE [builder EXCEPT !.error = TRUE]

\* spaces(): the index after the whitespace from i on.
RECURSIVE spaces(_, _)
spaces(command, i) ==
    IF i <= Len(command) /\ command[i] = "sp" THEN spaces(command, i + 1) ELSE i

\* skip_many1(alpha_num()): the index after the words from i on.
RECURSIVE skip_many_alpha_num(_, _)
skip_many_alpha_num(command, i) ==
    IF i <= Len(command) /\ IsWord(command[i])
    THEN skip_many_alpha_num(command, i + 1) ELSE i

\* spaces1: (space(), spaces()), the index after it if it matches at i.
spaces1(command, i) ==
    IF i <= Len(command) /\ command[i] = "sp" THEN Some(spaces(command, i + 1))
    ELSE None

\* flag: (spaces1(), string("--"), flag_name) at i, its name and the index
\* after it.
flag(command, i) ==
    IF spaces1(command, i) = None THEN None
    ELSE LET j == Unwrap(spaces1(command, i))
             k == skip_many_alpha_num(command, j + 1)
         IN IF j <= Len(command) /\ command[j] = "--" /\ k > j + 1
            THEN Some([name |-> SubSeq(command, j + 1, k - 1), next |-> k])
            ELSE None

\* many::<FlagsBuilder, _, _>(attempt(flag)) from i on.
RECURSIVE many_flags(_, _, _)
many_flags(command, i, builder) ==
    IF flag(command, i) = None THEN [builder |-> builder, next |-> i]
    ELSE many_flags(command, Unwrap(flag(command, i)).next,
                    extend(builder, Unwrap(flag(command, i)).name))

\* eval::parse::parse_command
parse_command(command) ==
    IF command = <<>> \/ command[1] # "/eval" THEN None
    ELSE LET hasAt == Len(command) >= 2 /\ command[2] = "@"
             nameEnd == IF hasAt THEN skip_many_alpha_num(command, 3) ELSE 2
             bot_name == IF hasAt THEN Some(SubSeq(command, 3, nameEnd - 1)) ELSE None
             m == many_flags(command, nameEnd,
                             [flags |-> DefaultFlags, error |-> FALSE])
             after == IF m.next > Len(command) THEN Some(m.next)
                      ELSE spaces1(command, m.next)
         IN IF hasAt /\ nameEnd = 3 THEN None
            ELSE IF after = None THEN None
            ELSE IF m.builder.error THEN None
            ELSE Some([bot_name |-> bot_name, flags |-> m.builder.flags,
                       content |-> SubSeq(command, Unwrap(after), Len(command))])

\* A command as it is written: "/eval", the name of the bot or none, flags
\* each after some whitespace or none, and the content after some whitespace
\* or none.
RECURSIVE WriteFlags(_)
WriteFlags(items) ==
    IF items = <<>> THEN <<>>
    ELSE [k \in 1..Head(items).sep |-> "sp"] \o <<"--", Head(items).name>>
         \o WriteFlags(Tail(items))
WriteCommand(bot, items, gap, content) ==
    <<"/eval">> \o (IF IsSome(bot) THEN <<"@", Unwrap(bot)>> ELSE <<>>)
    \o WriteFlags(items) \o [k \in 1..gap |-> "sp"] \o content

\* What the commands are written from.
WrittenNames == {"stable", "nightly", "bare", "zzz"}
WrittenItems ==
    UNION {[1..n -> [sep : 0..2, name : WrittenNames]] : n \in 0..MaxFlags}
WrittenContents == {<<>>, <<"x">>, <<"zzz", "sp", "--", "zzz">>}
ParseCalls ==
    {[fn |-> "parse_command", bot |-> b, items |-> fs, gap |-> g, content |-> c,
      command |-> WriteCommand(b, fs, g, c), ret |-> None] :
        b \in {None, Some("bot")}, fs \in WrittenItems, g \in 0..1,
        c \in WrittenContents}

\* The call returns.
parse_command_returns ==
    /\ call.fn = "parse_command"
    /\ call.ret = None
    /\ call' = [call EXCEPT !.ret = Some(parse_command(call.command))]
    /\ UNCHANGED <<streamVars, shutdownVars, registered, handlers, confirm, mainPc,
                   trackerVars, peer>>

\* ------------------------------------------------------------ specification
\* bot.get_updates(shutdown.register()) and the BotRun built around it; a
\* task tracker just created; main waiting for the runtime to go idle.
Started ==
    /\ update_id = None
    /\ buffer = <<>>
    /\ current_request = None
    /\ stop_signal = FALSE
    /\ queue = Some({"stream"})
    /\ retried = 0
    /\ delay = None
    /\ pc = "run"
    /\ result = ResNone
    /\ trace = <<>>
    /\ reported = None
    /\ dispatched = <<>>
    /\ handled = None
    /\ received = <<>>
    /\ lastFetch = None
    /\ batchLens = <<0, 0>>
    /\ inflight = 0
    /\ honest = TRUE
    /\ errStreak = 0
    /\ delays = <<>>
    /\ scenario = [on |-> TRUE, offsets |-> <<>>]
    /\ notified = [w \in Receivers |-> <<>>]
    /\ registered = {"stream"}
    /\ called = {}
    /\ handlers = 0
    /\ confirm = None
    /\ mainPc = "wait"
    /\ tasks = [t \in Tasks |-> "new"]
    /\ channel = <<>>
    /\ counter = 0
    /\ waiter = "idle"
    /\ lateSpawn = FALSE
    /\ peer = [update_id |-> None, buffer |-> <<>>, current_request |-> None,
               retried |-> 0, delay |-> None, pc |-> "run", handled |-> 0]

\* The engine started, and no function of the commands called.
Init == Started /\ call = NoCall

\* The futures a step may poll: the delay if one is set; the pending request
\* if the delay lets the stream be polled with its buffer empty; a new request
\* if no request is pending then, or the pending one ends without an update.
\* A future the step cannot poll is given one fixed answer.
PollsDelay == IsSome(delay)
PollsPending(dres) ==
    /\ dres = "Ready"
    /\ buffer = <<>>
    /\ IsSome(current_request)
MakesRequest(dres, rres) ==
    /\ dres = "Ready"
    /\ buffer = <<>>
    /\ \/ current_request = None
       \/ rres.kind = "Elapsed"
       \/ rres.kind = "Ok" /\ rres.updates = <<>>

IsError(res) == res.kind \in {"Err", "TimerErr"}

\* A driver step with the answers of the futures drawn from Results and the
\* content of a handled update from contents, the upstream erring at most
\* maxStreak times in a row and sending at most maxEvents updates.
PollStep(Results, maxStreak, maxEvents, contents) ==
    \E dres \in DelayResults :
       /\ PollsDelay \/ dres = "Ready"
       /\ \E rres \in Results :
             /\ PollsPending(dres) \/ rres = NotReady
             /\ IsError(rres) => errStreak < maxStreak
             /\ rres.kind = "Ok" => Len(received) + Len(rres.updates) <= maxEvents
             /\ \E fresh \in FreshResults :
                   /\ MakesRequest(dres, rres) \/ fresh = NotReady
                   /\ IsError(fresh) => errStreak < maxStreak
                   /\ \E content \in contents :
                         BotRun_poll(dres, rres, fresh, content)

\* The engine against the whole upstream, its updates ordinary ones, shut
\* down by a signal.
Next ==
    \/ PollStep(RequestResults, MaxStreak, MaxEvents, {TextUpdate})
    \/ signal_init

Spec == Init /\ [][Next]_vars

\* The same engine against an upstream that may err any number of times in
\* a row, and sends one update at a time.
BackoffResults ==
    {NotReady, ErrTimerPoll, ErrElapsed, Ready(<<>>), Ready(<<1>>),
     ErrInner(ErrRequest), ErrInner(ErrApi), ErrInner(ErrParse(JInvalid))}

NextBackoff ==
    \/ PollStep(BackoffResults, RetryCap + 1, MaxEvents, {TextUpdate})
    \/ signal_init

SpecBackoff == Init /\ [][NextBackoff]_vars

\* The engine against an upstream that sends the outcomes of the scenario,
\* and a few others.
ScenarioResults ==
    {NotReady, ErrTimerPoll, Ready(<<>>)}
    \cup UNION {Scenario[i] : i \in 1..Len(Scenario)}

NextScenario ==
    \/ PollStep(ScenarioResults, MaxStreak, Len(ScenarioBatch), {TextUpdate})
    \/ signal_init

SpecScenario == Init /\ [][NextScenario]_vars

\* The engine with everything that stops it: the commands in its updates, the
\* signal thread and the upgrade watcher, other callers registering with the
\* broadcaster, its handlers completing, and main waiting for the runtime.
StopResults ==
    {NotReady, ErrElapsed, ErrInner(ErrApi)} \cup {Ready(b) : b \in Batches}

NextStop ==
    \/ PollStep(StopResults, MaxStreak, MaxEvents, Contents)
    \/ signal_init
    \/ handler_done
    \/ shutdown_on_idle

SpecStop == Init /\ [][NextStop]_vars

\* The broadcaster with all its callers: the engine with the commands in its
\* updates, the signal thread, the upgrade watcher, and other callers
\* registering at any moment.
ShutdownResults == {NotReady, ErrElapsed, Ready(<<1>>), ErrInner(ErrApi)}

NextShutdown ==
    \/ PollStep(ShutdownResults, MaxStreak, MaxEvents, Contents)
    \/ signal_init
    \/ watch_notify_file
    \/ \E w \in OtherReceivers : register(w)

SpecShutdown == Init /\ [][NextShutdown]_vars

\* The engine against an upstream that sends updates of any content: any
\* kind, chat, text and sender.
CommandResults == {NotReady, Ready(<<1>>), Ready(<<1, 2>>)}

NextCommand ==
    \/ PollStep(CommandResults, MaxStreak, MaxEvents, Messages)
    \/ signal_init

SpecCommand == Init /\ [][NextCommand]_vars

\* The task tracker: tasks spawned, ending or panicking, and wait().
NextTracker ==
    \/ \E t \in Tasks : spawn(t)
    \/ \E t \in Tasks : task_ended(t)
    \/ \E t \in Tasks : task_panicked(t)
    \/ wait_call
    \/ wait_recv

SpecTracker == Init /\ [][NextTracker]_vars

\* Two engines sharing the broadcaster: the first against an upstream that
\* may err until its retries are exhausted, the second started at any moment
\* by its run(), and the signal thread.
PeersResults == {NotReady, Ready(<<1>>), ErrInner(ErrApi)}
SecondResults == {NotReady, ErrElapsed, Ready(<<1>>), ErrInner(ErrApi)}

\* A step of the second engine, the answers of its futures chosen as in
\* PollStep.
PeerStep ==
    \E dres \in DelayResults :
       /\ IsSome(peer.delay) \/ dres = "Ready"
       /\ \E rres \in SecondResults :
             /\ \/ dres = "Ready" /\ peer.buffer = <<>> /\ IsSome(peer.current_request)
                \/ rres = NotReady
             /\ IsError(rres) => peer.retried < MaxStreak
             /\ rres.kind = "Ok" => peer.handled + Len(rres.updates) <= MaxEvents
             /\ \E fresh \in FreshResults :
                   /\ \/ /\ dres = "Ready"
                         /\ peer.buffer = <<>>
                         /\ \/ peer.current_request = None
                            \/ rres.kind = "Elapsed"
                      \/ fresh = NotReady
                   /\ IsError(fresh) => peer.retried < MaxStreak
                   /\ peer_poll(dres, rres, fresh)

NextPeers ==
    \/ PollStep(PeersResults, RetryCap + 1, MaxEvents, {TextUpdate})
    \/ signal_init
    \/ register("second")
    \/ PeerStep

SpecPeers == Init /\ [][NextPeers]_vars

\* The engine with the commands in its updates and the signal thread, its
\* timer never failing.  Once the stop signal is set the task of the driver
\* has been woken through the receiver, and a delay that is pending wakes it
\* when it fires: the driver is then polled, and gets the delay ready, in the
\* end.
WokenResults ==
    {NotReady, ErrElapsed, ErrInner(ErrApi), Ready(<<1>>), Ready(<<2>>), Ready(<<1, 2>>)}

WokenStep ==
    /\ PollStep(WokenResults, MaxStreak, MaxEvents, {TextUpdate, ShutdownUpdate})
    /\ pc' # "failed"

NextWoken ==
    \/ WokenStep
    \/ signal_init

SpecWoken == Init /\ [][NextWoken]_vars /\ WF_vars(stop_signal /\ WokenStep)

\* truncate_output called with any output and any limits.
InitTruncate == Started /\ call \in TruncateCalls

NextTruncate == truncate_output_returns

SpecTruncate == InitTruncate /\ [][NextTruncate]_vars

\* parse_command called with any command written as above.
InitParse == Started /\ call \in ParseCalls

NextParse == parse_command_returns

SpecParse == InitParse /\ [][NextParse]_vars

\* ================================================================== claims
\* Helpers of the claims' formulas.
SeqSet(q) == {q[i] : i \in 1..Len(q)}
\* The step makes a getUpdates request.
MadeFetch == \E i \in 1..Len(trace') : trace'[i] = "made"
\* The updates the step decodes from a batch.
NewlyReceived == SubSeq(received', Len(received) + 1, Len(received'))

\* ---- C1
\* The request a step makes is fetch n+1; fetch n is the latest one before
\* the step.  Fetch n advanced the cursor when it ended in a batch that is not
\* empty or in a decode error whose body ends in an id (the step that makes
\* fetch n+1 right after an empty batch or a timeout sees fetch n pending).
FetchNAdvanced ==
    /\ trace'[1] = "made"
    /\ \/ Unwrap(lastFetch).kind = "batch"
       \/ Unwrap(lastFetch).kind = "Parse" /\ IsSome(Unwrap(lastFetch).lastId)
CursorStep ==
    (MadeFetch /\ IsSome(lastFetch)) =>
        /\ Rank(Unwrap(lastFetch').offset) >= Rank(Unwrap(lastFetch).offset)
        /\ FetchNAdvanced =>
              Rank(Unwrap(lastFetch').offset) > Rank(Unwrap(lastFetch).offset)

\* C1 as the claim states it: for any sequence of fetch outcomes, the offset
\* of fetch n+1 is >= the offset of fetch n, and greater after a batch that is
\* not empty or a recovered decode error.
C1_AnyOutcomes == [][CursorStep]_vars

\* C1 (amended): as long as every update id the upstream has returned (in a
\* decoded batch or in a body that failed decoding) is >= the offset it was
\* asked for, the offset of fetch n+1 is >= the offset of fetch n, and greater
\* when fetch n returned a batch that is not empty or a decode error from
\* which recovery extracted an id.
C1_MonotonicCursor == [][honest => CursorStep]_vars

\* A fetch is out with an offset above the first one, the upstream honest.
C1_Witness ==
    /\ honest
    /\ IsSome(lastFetch)
    /\ Unwrap(lastFetch).kind = "pending"
    /\ Rank(Unwrap(lastFetch).offset) > 0

\* ---- C2
\* C2 as the claim states it: when the run has ended by shutdown, every update
\* received in a decoded batch has been dispatched exactly once.
C2_AllDispatched == pc = "done" => dispatched = received

\* C2 (amended): the updates dispatched are at every moment a prefix of the
\* updates received, each dispatched once and in the order received, and the
\* received updates not yet dispatched are exactly the buffer; the updates
\* still in the buffer when the stream sees the stop signal are never
\* dispatched in this run.
C2_DispatchedOnce == received = dispatched \o buffer

\* The run ended by shutdown with an update dispatched and one left behind.
C2_Witness == pc = "done" /\ dispatched # <<>> /\ buffer # <<>>

\* ---- C3
LastBatch == SubSeq(received, Len(received) - batchLens[2] + 1, Len(received))
PrevBatch == SubSeq(received, Len(received) - batchLens[2] - batchLens[1] + 1,
                    Len(received) - batchLens[2])

\* C3: the last two decoded batches share no update id, provided the upstream
\* returned only ids >= the offset it was asked for.
C3_NoRedelivery == honest => SeqSet(PrevBatch) \cap SeqSet(LastBatch) = {}

\* Two batches, neither empty, decoded one after the other from an honest
\* upstream.
C3_Witness == honest /\ batchLens[1] > 0 /\ batchLens[2] > 0

\* ---- C4
\* C4: at most one request is outstanding; the request the stream holds is the
\* latest one made and has not completed.
C4_OneFetch ==
    /\ inflight <= 1
    /\ IsSome(current_request) =>
          /\ inflight = 1
          /\ Unwrap(lastFetch) = [offset |-> Unwrap(current_request).offset,
                                  kind |-> "pending", lastId |-> None]
    /\ current_request = None => inflight = 0

\* A request is outstanding after an earlier one completed with a batch.
C4_Witness == IsSome(current_request) /\ inflight = 1 /\ received # <<>>

\* ---- C5
\* C5: a step hands the driver at most one update, the oldest one pending (the
\* head of the buffer, or of the batch just decoded when the buffer was
\* empty); the rest stays buffered in order; a request is made only with the
\* buffer empty.
C5_Step ==
    LET pending == buffer \o NewlyReceived IN
    /\ Len(dispatched') <= Len(dispatched) + 1
    /\ dispatched' # dispatched =>
          /\ dispatched' = Append(dispatched, Head(pending))
          /\ buffer' = Tail(pending)
    /\ (dispatched' = dispatched /\ pc' = "run") => buffer' = pending
    /\ MadeFetch => buffer = <<>> /\ buffer' = <<>>
    /\ NewlyReceived # <<>> => buffer = <<>>
C5_OneAtATime == [][C5_Step]_vars

\* The second update of a batch has been handed over, after the first.
C5_Witness ==
    /\ batchLens[2] = 2
    /\ buffer = <<>>
    /\ Len(dispatched) >= 2
    /\ result.kind = "Update"
    /\ result.update = received[Len(received)]

\* ---- C6
\* The last step took the answer of a fetch that succeeded (a batch, empty or
\* not) or that timed out.
TookSuccessOrTimeout == \E i \in 1..Len(trace) : trace[i] \in {"batch", "empty", "timeout"}

\* C6: the retry count is 0 right after a successful batch fetch (an empty
\* batch too) and right after a long-poll timeout, so an error that follows
\* one counts as the first of its streak.
C6_ResetOnSuccessOrTimeout ==
    TookSuccessOrTimeout =>
        IF result.kind = "Err" THEN retried = 1 /\ delay = Some(1) ELSE retried = 0

\* ---- C7
\* C7: the delay pending after the k-th stream error in a row (k in 1..13) is
\* 2^(k-1) seconds, and the delays of a streak are 1, 2, 4, ... in this order.
C7_BackoffDelays ==
    /\ IsSome(delay) =>
          /\ errStreak \in 1..RetryCap
          /\ Unwrap(delay) = 2 ^ (errStreak - 1)
    /\ Len(delays) = (IF errStreak > RetryCap THEN RetryCap ELSE errStreak)
    /\ \A i \in 1..Len(delays) : delays[i] = 2 ^ (i - 1)

\* The 13th error in a row has scheduled its delay, five and more before it.
C7_Witness ==
    /\ errStreak = RetryCap
    /\ delay = Some(4096)
    /\ SubSeq(delays, 1, 5) = <<1, 2, 4, 8, 16>>

\* ---- C8
C8_AfterError ==
    result.kind = "Err" =>
        IF errStreak <= RetryCap
        THEN pc = "run" /\ IsSome(delay) /\ Len(delays) = errStreak
        ELSE /\ errStreak = RetryCap + 1
             /\ pc = "failed"
             /\ delay = None
             /\ Len(delays) = RetryCap
             /\ current_request = None
             /\ inflight = 0
C8_Terminal ==
    pc = "failed" => UNCHANGED <<pc, delay, delays, lastFetch, trace, inflight, current_request>>

\* C8: each of the first 13 stream errors in a row schedules a retry; the 14th
\* ends the driver with an error, schedules no delay and leaves no request
\* out, and the ended driver makes no further request.
C8_CapEnforced == []C8_AfterError /\ [][C8_Terminal]_vars

\* The driver has ended on the 14th error in a row.
C8_Witness == pc = "failed" /\ errStreak = RetryCap + 1 /\ result.kind = "Err"

\* ---- C9
RecoveredFetch ==
    /\ IsSome(lastFetch)
    /\ Unwrap(lastFetch).kind = "Parse"
    /\ IsSome(Unwrap(lastFetch).lastId)
C9_Cursor ==
    RecoveredFetch =>
        /\ update_id = Some(Unwrap(Unwrap(lastFetch).lastId) + 1)
        /\ (trace # <<>> /\ trace[Len(trace)] = "Parse") =>
              /\ result = [kind |-> "Err", error |-> "Parse"]
              /\ reported = Some("Parse")
C9_NextFetch ==
    (RecoveredFetch /\ MadeFetch) =>
        Unwrap(lastFetch').offset = Some(Unwrap(Unwrap(lastFetch).lastId) + 1)

\* C9: after a decode error whose body is an object with "ok": true and a
\* "result" array ending in an element with an integer update_id v, the cursor
\* is v+1, the error is returned to the driver and reported, and the next
\* fetch is made with offset v+1.
C9_RecoveryAdvances == []C9_Cursor /\ [][C9_NextFetch]_vars

\* A recovered decode error has just been returned and reported, the cursor
\* moved by it.
C9_Witness ==
    /\ RecoveredFetch
    /\ reported = Some("Parse")
    /\ update_id # Unwrap(lastFetch).offset
    /\ pc = "run"

\* ---- C10
TransportError == result.kind = "Err" /\ result.error = "Request"

\* C10 as the claim states it: a transport error ends the engine at once,
\* with no backoff retry, whatever the retry count.
C10_TransportFatal == TransportError => pc = "failed" /\ delay = None

\* C10 (amended): a transport error is returned to the driver and reported,
\* and is handled like every other stream error: while the retry count is
\* below 13 the driver schedules a retry after 2^retried seconds and goes on;
\* it ends only when the retry count is 13 already.
C10_TransportRetried ==
    TransportError =>
        /\ reported = Some("Request")
        /\ pc = "failed" <=> errStreak = RetryCap + 1
        /\ pc = "run" => retried = errStreak /\ delay = Some(2 ^ (retried - 1))

\* The 13th error in a row is a transport error, and a retry is scheduled.
C10_Witness == TransportError /\ pc = "run" /\ retried = RetryCap /\ IsSome(delay)

\* ---- C11
\* The fetch outcomes so far are the first n of the scenario.
ScenarioAt(n) == scenario.on /\ Len(scenario.offsets) = n
\* The stream has just returned an error to the driver.
JustErred == result.kind = "Err"

\* The scenario up to its last outcome: the offsets of its fetches are the
\* first of 0, 13, 13, 16; the batch is handed over update by update, three
\* calls of handle_update in all; the retry count is 0 after the timeout; the
\* decode error moves the cursor to 16 and is the first error of its streak.
ScenarioPrefix ==
    scenario.on =>
        /\ scenario.offsets = SubSeq(<<0, 13, 13, 16>>, 1, Len(scenario.offsets))
        /\ Len(scenario.offsets) >= 1 =>
              /\ received = ScenarioBatch
              /\ dispatched \o buffer = ScenarioBatch
        /\ Len(scenario.offsets) \in {1, 2} => update_id = Some(13)
        /\ Len(scenario.offsets) >= 2 =>
              /\ dispatched = ScenarioBatch
              /\ handlers = 3
        /\ Len(scenario.offsets) = 2 => retried = 0 /\ delay = None
        /\ Len(scenario.offsets) >= 3 => update_id = Some(16)
        /\ (Len(scenario.offsets) = 3 /\ JustErred) =>
              /\ reported = Some("Parse")
              /\ retried = 1
              /\ delay = Some(1)

\* C11 as the claim states it: after [batch 10,11,12; timeout; decode error
\* recoverable to 15; fatal error] the offsets were 0, 13, 13, 16, the handler
\* was invoked 3 times, the retry count was 0 after the timeout, and the
\* engine has ended right after the fatal error with retry count 1.
C11_EndsAtFatal ==
    /\ ScenarioPrefix
    /\ (ScenarioAt(4) /\ JustErred) => pc = "failed" /\ retried = 1

\* C11 (amended): the same up to the last outcome; the transport or API error
\* that ends the scenario does not end the engine: it is reported, the retry
\* count goes to 2, a delay of 2 s is set and the driver goes on.
C11_EndToEnd ==
    /\ ScenarioPrefix
    /\ (ScenarioAt(4) /\ JustErred) =>
          /\ reported \in {Some("Request"), Some("Api")}
          /\ pc = "run"
          /\ retried = 2
          /\ delay = Some(2)
          /\ update_id = Some(16)
          /\ dispatched = ScenarioBatch

\* The four outcomes of the scenario have been taken, the last one just now.
C11_Witness == ScenarioAt(4) /\ JustErred /\ scenario.offsets[4] = 16

\* ---- C12
Running == {t \in Tasks : tasks[t] = "running"}

\* C12: when wait() was called after the last spawn and has returned, no
\* spawned task is still running, whatever the order in which the tasks ended
\* and even if some ended before later ones were spawned.
C12_WaitsForAll == (waiter = "returned" /\ ~lateSpawn) => Running = {}

\* ---- C13
Panicked == {t \in Tasks : tasks[t] = "panicked"}

\* C13: a task that panics is still counted as completed: once wait() has
\* received every message sent, its counter is the number of tasks still
\* running, and when every task has ended or panicked wait() has returned.
C13_PanicAccounted ==
    (waiter # "idle" /\ channel = <<>>) =>
        /\ waiter = "waiting" => counter = Cardinality(Running)
        /\ (\A t \in Tasks : tasks[t] \in {"ended", "panicked"}) => waiter = "returned"

\* ---- C14
\* C14: every receiver register() has returned is resolved as the claim
\* says.  While the broadcaster has not fired, the receivers handed out are
\* exactly those queued and none holds a value; once it has fired, every
\* receiver handed out holds a value, sent by shutdown() when it was queued
\* before, by register() itself when it was handed out after; the stream of
\* this engine sees its stop signal exactly when its receiver holds a value.
C14_NoMissedWakeup ==
    /\ IsSome(queue) => Unwrap(queue) = registered
    /\ IsSome(queue) => \A w \in Receivers : notified[w] = <<>>
    /\ queue = None => \A w \in registered : notified[w] # <<>>
    /\ \A w \in Receivers \ registered : notified[w] = <<>>
    /\ stop_signal <=> notified["stream"] = <<"shutdown">>
    /\ called # {} <=> queue = None

\* One receiver was queued when shutdown fired and was notified by it, another
\* was handed out after and resolved inside register().
C14_Witness ==
    /\ queue = None
    /\ stop_signal
    /\ \E w \in OtherReceivers : notified[w] = <<"shutdown">>
    /\ \E w \in OtherReceivers : notified[w] = <<"register">>

\* ---- C15
\* A step in which somebody calls shutdown().
ShutdownCall == called' # called

\* C15: a call of shutdown() after the first changes nothing in the
\* broadcaster and sends to nobody, whoever makes it and in whatever order, and
\* no receiver ever gets more than one notification.
C15_LaterCallNoOp ==
    (ShutdownCall /\ called # {}) => UNCHANGED <<queue, notified, stop_signal, registered>>
C15_OnceEach == \A w \in Receivers : Len(notified[w]) <= 1
C15_Idempotent == []C15_OnceEach /\ [][C15_LaterCallNoOp]_vars

\* All three callers have called shutdown(), and every receiver handed out
\* before the first call holds the one notification of that call.
C15_Witness ==
    /\ called = Callers
    /\ \A w \in Receivers : notified[w] = <<"shutdown">>

\* ---- C16
\* The step neither makes a request nor takes the answer of one.
NoFetchActivity ==
    /\ lastFetch' = lastFetch
    /\ inflight' <= inflight
    /\ trace' \in {trace, <<>>}

\* C16 as the claim states it: a fetch outstanding when the shutdown signal
\* fires still completes, so an engine that has stopped has no fetch left
\* without an outcome.
C16_FetchCompletes ==
    (pc = "done" /\ IsSome(lastFetch)) => Unwrap(lastFetch).kind # "pending"

\* C16 (amended): a fetch outstanding when the stop signal is set is never
\* polled again: it gets no outcome, nothing is received from it or delivered,
\* no other fetch is made, and the next poll of the stream ends the driver,
\* which drops the request.
C16_Step ==
    (stop_signal /\ pc = "run" /\ IsSome(current_request)) =>
        /\ NoFetchActivity
        /\ received' = received
        /\ dispatched' = dispatched
        /\ pc' # "run" => pc' = "done" /\ current_request' = None /\ inflight' = 0
C16_FetchDropped == [][C16_Step]_vars

\* The driver has ended with its latest fetch left without an outcome, after
\* an earlier fetch had brought updates.
C16_Witness ==
    /\ pc = "done"
    /\ IsSome(lastFetch)
    /\ Unwrap(lastFetch).kind = "pending"
    /\ received # <<>>

\* ---- C17
\* With the stop signal set nothing is fetched, received or handed over any
\* more; the first poll of the stream returns the end of the stream and the
\* driver completes (a driver sleeping in backoff whose timer fails ends with
\* that failure instead); the completed driver never moves again.
C17_Step ==
    /\ stop_signal =>
          /\ NoFetchActivity
          /\ received' = received
          /\ dispatched' = dispatched
    /\ (stop_signal /\ pc = "run") =>
          \/ UNCHANGED streamVars
          \/ pc' = "done" /\ result' = ResEnd /\ current_request' = None
          \/ IsSome(delay) /\ pc' = "failed"
    /\ pc = "done" => UNCHANGED streamVars
C17_State ==
    /\ result = ResEnd <=> pc = "done"
    /\ pc = "done" => stop_signal /\ current_request = None /\ inflight = 0

\* C17: once the stream has seen the shutdown signal it reports the end of
\* the stream, the driver completes, and the engine never makes another
\* request: Stopped is terminal.
C17_StoppedTerminal == []C17_State /\ [][C17_Step]_vars

\* The engine has stopped on its own /shutdown command.
C17_Witness == pc = "done" /\ result = ResEnd /\ called = {"command"}

\* ---- C18
\* C18: with the stop signal set while a backoff delay is pending, the retry
\* the delay was waiting for is never made: the driver sleeps on (shutdown
\* does not cut the delay short), and when the delay has elapsed the stream is
\* polled, reports its end, and the driver completes; only a failure of the
\* timer itself ends the driver otherwise.
C18_Step ==
    (stop_signal /\ pc = "run" /\ IsSome(delay)) =>
        /\ NoFetchActivity
        /\ current_request' = None
        /\ \/ UNCHANGED streamVars
           \/ pc' = "done" /\ result' = ResEnd /\ delay' = None
           \/ pc' = "failed" /\ result' = ResNone /\ reported' = None
C18_NoRetryAfterShutdown == [][C18_Step]_vars

\* The driver has completed with its latest fetch ended in an error: the
\* shutdown came during the backoff, and no retry was made.
C18_Witness ==
    /\ pc = "done"
    /\ IsSome(lastFetch)
    /\ Unwrap(lastFetch).kind = "Api"
    /\ delay = None

\* ---- C19
\* C19 as the claim states it: the driver does not complete while a handler it
\* dispatched is still running.
C19_DriverAfterDrain == pc = "done" => handlers = 0

\* C19 (amended): the driver completes as soon as its stream ends, whether its
\* handlers have finished or not; it is main that waits for them: main gets
\* past runtime.shutdown_on_idle() only when the driver has completed and no
\* handler it spawned is still running.
C19_Step == (mainPc = "wait" /\ mainPc' = "bye") => pc # "run" /\ handlers = 0
C19_State == mainPc = "bye" => pc # "run" /\ handlers = 0
C19_DrainInMain == []C19_State /\ [][C19_Step]_vars

\* Main has got past the wait after a run that handled updates and was ended
\* by a signal.
C19_Witness ==
    /\ mainPc = "bye"
    /\ pc = "done"
    /\ dispatched # <<>>
    /\ called = {"signal"}

\* ---- C20
\* C20 as the claim states it: the offset of the confirm_update request is the
\* cursor of the stream.
C20_ConfirmAtCursor == IsSome(confirm) => Unwrap(confirm).offset = update_id

\* C20 (amended): a confirmation is made only for the /shutdown command, and
\* its offset is the id of the /shutdown update plus one.  This is the cursor
\* when that update was the last of its batch; when updates of the batch are
\* still buffered it is at most the id of the first of them, below the cursor.
C20_ConfirmOffset ==
    /\ IsSome(confirm) <=> "command" \in called
    /\ IsSome(confirm) =>
          /\ dispatched # <<>>
          /\ Unwrap(confirm).offset = Some(dispatched[Len(dispatched)] + 1)
          /\ buffer = <<>> => Unwrap(confirm).offset = update_id
          /\ buffer # <<>> =>
                /\ Rank(Unwrap(confirm).offset) <= Head(buffer)
                /\ Rank(Unwrap(confirm).offset) < Rank(update_id)

\* The /shutdown update was confirmed with an update of its batch still in the
\* buffer.
C20_Witness == IsSome(confirm) /\ buffer # <<>> /\ pc = "done"

\* ---------------------------------------------------------------------- C21
\* The step handed an update to handle_update.
Dispatch == dispatched' # dispatched

\* C21 as stated: for every update the stream yields to the driver, the
\* handler is invoked exactly once with it: each dispatch spawns one handler
\* future.
C21_HandlerPerEvent == [][Dispatch => handlers' = handlers + 1]_vars

\* C21, amended: every update the stream yields is handed to handle_update
\* exactly once, and the handler is invoked exactly once with it unless the
\* update is a common command (/about, or /shutdown of the admin), which the
\* driver answers itself without invoking the handler; no handler is invoked
\* on any other step.
C21_HandlerUnlessCommand ==
    [][/\ Dispatch =>
            LET u == dispatched'[Len(dispatched')]
            IN /\ result' = ResUpdate(u)
               /\ dispatched' = Append(dispatched, u)
               /\ handled' \in {Some([update |-> u, content |-> c]) : c \in Contents}
               /\ handlers' = IF Unwrap(handled').content \in {AboutUpdate, ShutdownUpdate}
                              THEN handlers ELSE handlers + 1
       /\ result'.kind = "Update" /\ ~UNCHANGED streamVars => Dispatch
       /\ handlers' > handlers => Dispatch]_vars

\* The driver handed an /about to handle_update after an ordinary update
\* whose handler is still running.
C21_Witness ==
    /\ Len(dispatched) = 2
    /\ IsSome(handled)
    /\ Unwrap(handled).content = AboutUpdate
    /\ handlers = 1
    /\ result.kind = "Update"

\* ---------------------------------------------------------------------- C22
\* C22: the driver never waits for a handler. With no handler ever completing
\* (every handler spawned so far is still running), a running driver that is
\* not stopped can always take its next step: dispatch the next buffered
\* update and spawn its handler, or make the next fetch when the buffer is
\* empty and no request is pending.
C22_NeverWaits ==
    /\ handlers = Len(dispatched)
    /\ (pc = "run" /\ handlers > 0 /\ ~stop_signal /\ delay = None) =>
          IF buffer # <<>>
          THEN ENABLED (/\ Next
                        /\ dispatched' = Append(dispatched, Head(buffer))
                        /\ handlers' = handlers + 1)
          ELSE current_request = None =>
                  ENABLED (Next /\ inflight' = 1 /\ trace' = <<"made">>)

\* Two updates were dispatched, neither handler has completed, and the driver
\* has made its next fetch.
C22_Witness ==
    /\ Len(dispatched) = 2
    /\ handlers = 2
    /\ buffer = <<>>
    /\ inflight = 1
    /\ trace = <<"made">>

\* ---------------------------------------------------------------------- C23
\* The step of the driver in which the pending request timed out.
TimedOut == streamVars' # streamVars /\ trace' # <<>> /\ trace'[1] = "timeout"

\* C23: a client-side timeout of the long poll is followed in the same step
\* by a new request with the offset of the one that timed out and with the
\* cursor unchanged; while that request is pending the driver sees NotReady
\* and no error, nothing is reported, the retry count is unchanged and no
\* delay is scheduled.  Only an error of the new request itself can be
\* surfaced by the step.
C23_TimeoutRefetches ==
    [][TimedOut =>
         /\ IsSome(current_request) /\ IsSome(lastFetch)
         /\ Len(trace') >= 2 /\ trace'[2] = "made"
         /\ update_id' = update_id
         /\ Unwrap(lastFetch').offset = Unwrap(current_request).offset
         /\ Unwrap(lastFetch').offset = update_id
         /\ IF Len(trace') = 2
            THEN /\ result' = ResNotReady
                 /\ reported' = None
                 /\ retried' = retried
                 /\ delay' = None
                 /\ pc' = "run"
                 /\ inflight' = 1
                 /\ current_request' = Some(get_updates_request(update_id))
            ELSE /\ trace' = <<"timeout", "made", "Request">>
                 /\ result' = [kind |-> "Err", error |-> "Request"]]_vars

\* A long poll with an offset timed out after an earlier error was retried,
\* and the next request is pending.
C23_Witness ==
    /\ trace = <<"timeout", "made">>
    /\ IsSome(update_id)
    /\ retried = 1
    /\ result = ResNotReady
    /\ IsSome(current_request)

\* ---------------------------------------------------------------------- C24
\* The highest id among the updates the step decoded.
HighestReceived ==
    CHOOSE m \in SeqSet(NewlyReceived) : \A x \in SeqSet(NewlyReceived) : x <= m

\* The step of the driver in which the pending request ended as `kind`.
FetchEnded(kind) == streamVars' # streamVars /\ trace' # <<>> /\ trace'[1] = kind

\* C24: after a fetch that returns a batch that is not empty the cursor is
\* the highest id of the batch plus one; after a fetch that returns an empty
\* batch the cursor is unchanged and the next fetch, made in the same step,
\* carries the offset of the one that returned it.
C24_CursorAfterBatch ==
    [][/\ FetchEnded("batch") =>
            /\ NewlyReceived # <<>>
            /\ update_id' = Some(HighestReceived + 1)
       /\ FetchEnded("empty") =>
            /\ NewlyReceived = <<>>
            /\ update_id' = update_id
            /\ IsSome(current_request)
            /\ Len(trace') >= 2 /\ trace'[2] = "made"
            /\ Unwrap(lastFetch').offset = Unwrap(current_request).offset
            /\ Unwrap(lastFetch').offset = update_id]_vars

\* A batch of two updates moved the cursor past its second update, then a
\* fetch with that offset returned an empty batch and the next one is pending.
C24_Witness ==
    /\ trace = <<"empty", "made">>
    /\ received = <<1, 2>>
    /\ batchLens = <<2, 0>>
    /\ update_id = Some(3)
    /\ IsSome(current_request)
    /\ Unwrap(current_request).offset = Some(3)

\* ---------------------------------------------------------------------- C25
\* The error is not a decode error whose body has the required shape: an
\* object with "ok": true and a "result" array that is not empty and ends in
\* an object with an integer "update_id".
NotRequiredShape(e) ==
    \/ e.kind # "Parse"
    \/ e.data.t # "obj"
    \/ "ok" \notin DOMAIN e.data.v
    \/ e.data.v.ok # JBool(TRUE)
    \/ "result" \notin DOMAIN e.data.v
    \/ e.data.v.result.t # "arr"
    \/ e.data.v.result.v = <<>>
    \/ LET arr == e.data.v.result.v
           item == arr[Len(arr)]
       IN \/ item.t # "obj"
          \/ "update_id" \notin DOMAIN item.v
          \/ item.v.update_id.t # "int"

\* The errors a request can end in.
StreamErrors == InnerErrors \cup {ErrTimer}

\* The step of the driver in which a request ended in an error that gave no
\* id to recover.
FetchFailedNoId ==
    /\ streamVars' # streamVars
    /\ result'.kind = "Err"
    /\ trace' # <<>>
    /\ Unwrap(lastFetch').lastId = None

\* C25: recovery leaves the cursor alone for every error that is not a decode
\* error of the required shape; a request that ended in such an error carried
\* the cursor as its offset, the cursor is unchanged after it, and the
\* request made next carries the same offset.
C25_NoRecoveryNoChange ==
    [][/\ FetchFailedNoId =>
            /\ \A e \in StreamErrors :
                  NotRequiredShape(e) <=> OutcomeLastId(ErrInner(e)) = None
            /\ \A e \in StreamErrors : \A uid \in {None} \cup {Some(i) : i \in IdSet} :
                  NotRequiredShape(e) => may_recover_from_error(uid, e) = uid
            /\ update_id' = update_id
            /\ Unwrap(lastFetch').offset = update_id
       /\ ( /\ streamVars' # streamVars
            /\ IsSome(lastFetch)
            /\ Unwrap(lastFetch).kind \in {"Request", "Api", "Parse", "timer"}
            /\ Unwrap(lastFetch).lastId = None
            /\ IsSome(lastFetch')
            /\ lastFetch' # lastFetch ) =>
            Unwrap(lastFetch').offset = Unwrap(lastFetch).offset]_vars

\* A request with an offset ended in a decode error that gave no id, after
\* an earlier batch had set the cursor; the cursor is still that offset.
C25_Witness ==
    /\ result = [kind |-> "Err", error |-> "Parse"]
    /\ IsSome(lastFetch)
    /\ Unwrap(lastFetch).kind = "Parse"
    /\ Unwrap(lastFetch).lastId = None
    /\ Unwrap(lastFetch).offset = Some(3)
    /\ update_id = Some(3)
    /\ pc = "run"

\* ---------------------------------------------------------------------- C26
\* The stream returned a decode error or a rejection of the API.
DecodeOrApiError == result.kind = "Err" /\ result.error \in {"Parse", "Api"}

\* The step reported the error it got, and no step reports without one.
C26_Reported ==
    /\ DecodeOrApiError =>
          /\ reported = Some(result.error)
          /\ IF errStreak <= RetryCap
             THEN pc = "run" /\ retried = errStreak /\ IsSome(delay)
             ELSE pc = "failed" /\ delay = None
    /\ IsSome(reported) => result = [kind |-> "Err", error |-> Unwrap(reported)]

\* The step after the delay of a reported error: the driver ends on an error
\* of the timer or on shutdown, or the stream makes the request again.
C26_Retried ==
    (DecodeOrApiError /\ pc = "run" /\ streamVars' # streamVars) =>
        \/ pc' = "failed" /\ result' = ResNone
        \/ stop_signal /\ pc' = "done"
        \/ /\ trace' # <<>> /\ trace'[1] = "made"
           /\ Unwrap(lastFetch').offset = update_id

\* C26: every decode error and every rejection of the API the stream returns
\* is given to report_error once by the step that gets it, the one that
\* exhausts the retries included, and no other step reports; below the cap
\* the step schedules a delay and stays running, and the step after the
\* delay makes the request again.
C26_ReportedAndRetried == []C26_Reported /\ [][C26_Retried]_vars

\* The 14th error in a row, a decode error, ended the driver and was reported.
C26_Witness ==
    /\ pc = "failed"
    /\ errStreak = RetryCap + 1
    /\ result = [kind |-> "Err", error |-> "Parse"]
    /\ reported = Some("Parse")

\* ---------------------------------------------------------------------- C27
\* C27 as stated: in every long-poll request the timeout the client applies
\* to the request exceeds the long-poll window the request asks of the
\* server.
C27_ClientExceedsServer ==
    IsSome(current_request) =>
        Unwrap(current_request).client_timeout > Unwrap(current_request).timeout

\* ---------------------------------------------------------------------- C28
\* wait() has returned only with its counter at zero, and with no task ever
\* spawned a wait() that was called is still waiting and has nothing to
\* receive.
C28_State ==
    /\ waiter = "returned" => counter = 0
    /\ (waiter # "idle" /\ \A t \in Tasks : tasks[t] = "new") =>
          /\ waiter = "waiting"
          /\ counter = 0
          /\ ~ENABLED wait_recv

\* wait() returns in the step that takes its counter from 1 to 0, and stays
\* in its loop on every other step.
C28_Step ==
    /\ (waiter # "returned" /\ waiter' = "returned") =>
          /\ waiter = "waiting"
          /\ counter = 1 /\ counter' = 0
          /\ Head(channel) = "Ended"
    /\ (waiter = "waiting" /\ counter' # 0) => waiter' = "waiting"

\* C28: wait() returns only when its counter goes from non-zero to zero: it
\* does not return while the counter is non-zero, and called with no task
\* ever spawned it stays blocked.
C28_ReturnsOnLastEnded == []C28_State /\ [][C28_Step]_vars

\* wait() was called, a task was spawned after that, and wait() returned on
\* the last Ended with every task ended and nothing left to receive.
C28_Witness ==
    /\ waiter = "returned"
    /\ counter = 0
    /\ lateSpawn
    /\ channel = <<>>
    /\ \A t \in Tasks : tasks[t] = "ended"

\* ---------------------------------------------------------------------- C29
\* The retry count is within 0..13 and every delay scheduled so far is at
\* most 4096 seconds.
C29_State ==
    /\ retried \in 0..RetryCap
    /\ IsSome(delay) => Unwrap(delay) <= 4096
    /\ \A i \in 1..Len(delays) : delays[i] <= 4096

\* A step that schedules a delay computes 1 << retried for a retry count of
\* at most 12, below the 64 bits of the operand, and the delay is that power
\* of two.
C29_Step ==
    (delay' # delay /\ IsSome(delay')) =>
        /\ retried <= RetryCap - 1
        /\ retried < 64
        /\ retried' = retried + 1
        /\ Unwrap(delay') = 2 ^ retried

\* C29: the retry count of a driver stays within 0..13 and 1 << retried is
\* computed only for retried <= 12, so the shift does not overflow and no
\* delay is longer than 4096 seconds.
C29_RetryBounded == []C29_State /\ [][C29_Step]_vars

\* The retry count is at its cap with the longest delay pending.
C29_Witness == retried = RetryCap /\ delay = Some(2 ^ (RetryCap - 1)) /\ pc = "run"

\* ---------------------------------------------------------------------- C30
\* A step of one engine changes nothing of the other and does not touch the
\* broadcaster, whatever the step is: an error, a retry, or the end of the
\* engine by exhausted retries.
C30_Step ==
    /\ streamVars' # streamVars => peer' = peer /\ UNCHANGED shutdownVars
    /\ peer' # peer => UNCHANGED <<streamVars, shutdownVars>>

\* An engine ends without an error only once the broadcaster has fired, and
\* the second engine, running and not stopped, can always go on, in whatever
\* state the first one is: make its next request, or take an update from the
\* pending one.
C30_State ==
    /\ (pc = "done" \/ peer.pc = "done") => queue = None
    /\ ("second" \in registered /\ peer.pc = "run" /\ notified["second"] = <<>>
          /\ peer.delay = None) =>
          IF peer.current_request = None
          THEN ENABLED (PeerStep /\ IsSome(peer'.current_request))
          ELSE peer.handled < MaxEvents =>
                  ENABLED (PeerStep /\ peer'.handled = peer.handled + 1
                                    /\ peer'.retried = 0)

\* C30: engines sharing one Shutdown are independent otherwise: the errors,
\* the backoff and the failure by exhausted retries of one do not fire the
\* broadcaster and change neither the cursor, the retry count nor the
\* progress of the other.
C30_Independent == []C30_State /\ [][C30_Step]_vars

\* The first engine has failed on its 14th error in a row without ever
\* getting an update; the broadcaster has not fired, and the second engine
\* runs with its own cursor and a retry count of zero.
C30_Witness ==
    /\ pc = "failed"
    /\ errStreak = RetryCap + 1
    /\ retried = RetryCap
    /\ update_id = None
    /\ IsSome(queue)
    /\ called = {}
    /\ peer.pc = "run"
    /\ peer.handled = 1
    /\ peer.update_id = Some(2)
    /\ peer.retried = 0
    /\ IsSome(peer.current_request)

\* ---------------------------------------------------------------------- C31
\* The width of a string as truncate_output counts it, and its newlines.
TotalWidth(str) ==
    LET RECURSIVE Sum(_)
        Sum(k) == IF k = 0 THEN 0 ELSE Sum(k - 1) + (IF str[k] = "W" THEN 2 ELSE 1)
    IN Sum(Len(str))
Newlines(str) == Cardinality({k \in 1..Len(str) : str[k] = "nl"})

\* C31 as stated: truncate_output returns the output unchanged when it has
\* fewer than max_lines newlines and a total width of at most
\* max_total_columns; otherwise it returns a prefix of it followed by "..."
\* whose total width is at most max_total_columns and which has fewer than
\* max_lines newlines.
C31_TruncateWithinLimits ==
    (call.fn = "truncate_output" /\ IsSome(call.ret)) =>
        LET ret == Unwrap(call.ret) IN
        IF /\ Newlines(call.output) < call.max_lines
           /\ TotalWidth(call.output) <= call.max_total_columns
        THEN ret = call.output
        ELSE /\ \E k \in 0..Len(call.output) : ret = SubSeq(call.output, 1, k) \o Dots
             /\ TotalWidth(ret) <= call.max_total_columns
             /\ Newlines(ret) < call.max_lines

\* ---------------------------------------------------------------------- C32
\* The flags a written command must end up with: each channel flag replaces
\* the channel set before it, --bare sets bare, nothing else is set.
ExpectedFlags(items) ==
    LET chans == {i \in 1..Len(items) : items[i].name \in {"stable", "nightly"}}
        lastChan == CHOOSE i \in chans : \A k \in chans : k <= i
    IN [channel |-> IF chans = {} THEN None
                    ELSE IF items[lastChan].name = "stable" THEN Some("Stable")
                    ELSE Some("Nightly"),
        edition |-> None, mode |-> None,
        bare |-> \E i \in 1..Len(items) : items[i].name = "bare",
        raw |-> FALSE, version |-> FALSE, help |-> FALSE]

\* C32: parse_command gives None for a command with a flag that is not
\* known, whatever known flags stand around it, and for one with a flag that
\* has no whitespace in front of it; for a command whose flags are all known
\* and set apart by whitespace it gives the flags with the last flag of each
\* field winning, and as content the text after the flags.
C32_FlagsAccepted ==
    (call.fn = "parse_command" /\ IsSome(call.ret)) =>
        LET ret == Unwrap(call.ret)
            items == call.items
            unknown == \E i \in 1..Len(items) :
                          items[i].name \notin {"stable", "nightly", "bare"}
            unspaced == \E i \in 1..Len(items) : items[i].sep = 0
        IN /\ (unknown \/ unspaced) => ret = None
           /\ (~unknown /\ ~unspaced /\ (call.gap > 0 \/ call.content = <<>>)) =>
                 ret = Some([bot_name |-> IF IsSome(call.bot)
                                          THEN Some(call.bot) ELSE None,
                             flags |-> ExpectedFlags(items),
                             content |-> call.content])

\* "/eval --stable  --nightly x" was parsed: the channel is the nightly one
\* and the content is "x".
C32_Witness ==
    /\ call.fn = "parse_command"
    /\ call.command = <<"/eval", "sp", "--", "stable", "sp", "sp", "--", "nightly",
                        "sp", "x">>
    /\ IsSome(call.ret)
    /\ Unwrap(call.ret) # None
    /\ Unwrap(Unwrap(call.ret)).flags.channel = Some("Nightly")
    /\ Unwrap(Unwrap(call.ret)).content = <<"x">>

\* ---------------------------------------------------------------------- C33
\* The messages of one kind among the first k of the channel.
Sent(kind, k) == Cardinality({i \in 1..k : channel[i] = kind})

\* The counter is never below zero, and the Ended messages among the first k
\* in the channel are never more than the counter and the Starting messages
\* among them.
C33_State ==
    /\ counter >= 0
    /\ \A k \in 1..Len(channel) : Sent("Ended", k) <= counter + Sent("Starting", k)

\* `counter -= 1` is executed only with the counter above zero.
C33_Step == (waiter = "waiting" /\ counter' # counter /\ Head(channel) = "Ended")
               => counter >= 1 /\ counter' = counter - 1

\* C33: the counter of wait never underflows: every Ended is in the channel
\* behind the Starting of its task, so `counter -= 1` never runs at zero,
\* however spawns and completions interleave.
C33_NoUnderflow == []C33_State /\ [][C33_Step]_vars

\* wait has counted two tasks in and one out: one has ended, one is running.
C33_Witness ==
    /\ waiter = "waiting"
    /\ counter = 1
    /\ channel = <<>>
    /\ \E t \in Tasks : tasks[t] = "ended"
    /\ \E t \in Tasks : tasks[t] = "running"

\* ---------------------------------------------------------------------- C34
\* C34: the stream ends, and the driver completes without an error, only
\* once shutdown() has been called on the broadcaster it registered with:
\* until then no receiver holds a value and the stop signal is not set, and a
\* driver that is over has ended with an error.
C34_EndOnlyByShutdown ==
    /\ (pc = "done" \/ result = ResEnd) =>
          /\ called # {}
          /\ queue = None
          /\ stop_signal
          /\ notified["stream"] = <<"shutdown">>
    /\ called = {} =>
          /\ IsSome(queue)
          /\ ~stop_signal
          /\ \A w \in Receivers : notified[w] = <<>>
          /\ pc \in {"run", "failed"}

\* The upgrade watcher alone called shutdown(), after another caller had
\* registered, and the stream has ended.
C34_Witness ==
    /\ pc = "done"
    /\ result = ResEnd
    /\ called = {"upgrade"}
    /\ notified["stream"] = <<"shutdown">>
    /\ \E w \in OtherReceivers : notified[w] = <<"shutdown">>

\* ---------------------------------------------------------------------- C35
\* C35: once shutdown() has been called, an engine that is still running
\* completes its driver without an error in the end, in whatever state the
\* call found it: idle, with a request pending, with updates still in the
\* buffer, or sleeping on a delay, provided the delay fires.
C35_EventuallyDone == (called # {} /\ pc = "run") ~> (pc = "done")

\* The signal found the driver after an error of the upstream, and the
\* driver has completed.
C35_Witness ==
    /\ pc = "done"
    /\ result = ResEnd
    /\ called = {"signal"}
    /\ IsSome(lastFetch)
    /\ Unwrap(lastFetch).kind = "Api"
    /\ buffer = <<>>

\* ---------------------------------------------------------------------- C36
\* The text is the word w with nothing but whitespace around it.
TrimsTo(text, w) ==
    \E i \in 1..Len(text) :
       /\ text[i] = w
       /\ \A j \in 1..Len(text) : j # i => text[j] \in {"sp", "nl"}

PrivateCommand(c, w) ==
    /\ c.kind = "Message"
    /\ c.chat = "private"
    /\ IsSome(c.text)
    /\ TrimsTo(Unwrap(c.text), w)

AdminShutdown(c) == PrivateCommand(c, "/shutdown") /\ c.from = Some("admin")

\* C36: the driver fires the shutdown broadcaster from an update only if the
\* update is a text message that is "/shutdown" after trimming, sent in a
\* private chat by the admin; on the dispatch of any other update the shutdown
\* state and the confirmation are left unchanged, and the update is passed to
\* the handler unless it is the private "/about" command.
C36_ShutdownOnlyByAdmin ==
    [][Dispatch /\ ~AdminShutdown(Unwrap(handled').content) =>
          /\ UNCHANGED <<shutdownVars, confirm>>
          /\ handlers' = IF PrivateCommand(Unwrap(handled').content, "/about")
                         THEN handlers ELSE handlers + 1]_vars

\* The driver dispatched a "/shutdown" of another user in a private chat,
\* which went to the handler, and the broadcaster has not fired.
C36_Witness ==
    /\ IsSome(handled)
    /\ PrivateCommand(Unwrap(handled).content, "/shutdown")
    /\ Unwrap(handled).content.from = Some("other")
    /\ handlers = 1
    /\ ~stop_signal
    /\ called = {}
    /\ confirm = None

\* ---------------------------------------------------------------------- C37
\* The step polled the stream: it is a step of the driver that is not the
\* return on a delay that has not elapsed (which changes nothing) nor the
\* failure of the timer of the delay.
PolledStream == ~UNCHANGED streamVars /\ result'.kind # "None"

\* C37: while a backoff delay is pending the engine has no outstanding fetch
\* and the stream is not polled. A pending delay was set by the step that got
\* an error from the stream, with current_request left empty; a delay is set
\* only by a step in which the stream returned an error; and a step that
\* polls the stream with a delay set has cleared that delay: afterwards there
\* is none, or the one just scheduled for a new error of the stream.
C37_DelayState ==
    IsSome(delay) /\ pc = "run" =>
       /\ current_request = None
       /\ inflight = 0
       /\ result.kind = "Err"
       /\ IsSome(reported)

C37_DelayStep ==
    /\ IsSome(delay') /\ delay' # delay => result'.kind = "Err" /\ PolledStream
    /\ IsSome(delay) /\ PolledStream =>
          \/ delay' = None
          \/ /\ result'.kind = "Err"
             /\ retried' = retried + 1
             /\ delays' = Append(delays, Unwrap(delay'))

C37_NoFetchWhileDelayed == []C37_DelayState /\ [][C37_DelayStep]_vars

\* A delay is pending after a second error in a row, the first delay having
\* elapsed: the stream was polled again, made a request that failed, and no
\* request is left.
C37_Witness ==
    /\ IsSome(delay)
    /\ Len(delays) = 2
    /\ current_request = None
    /\ IsSome(lastFetch)

\* ---------------------------------------------------------------------- C38
\* How many times the id occurs in the sequence of updates.
Occurrences(updates, id) == Cardinality({i \in 1..Len(updates) : updates[i] = id})

\* Every update with an id below the offset that is in rcv is in disp as
\* many times: none of them was received and not dispatched.
AllBelowDispatched(offset, rcv, disp) ==
    \A id \in SeqSet(rcv) :
       id < Rank(offset) => Occurrences(disp, id) = Occurrences(rcv, id)

\* C38: in a run without decode errors, whenever a getUpdates request with
\* offset o is sent upstream, every update with id < o that the engine
\* received in a batch has already been dispatched: when a step makes a fetch,
\* of the updates received before the step; when a step spawns the
\* confirmation of /shutdown, of the updates received so far, the /shutdown
\* itself being dispatched by that step.
C38_AckOnlyDispatched ==
    [][/\ MadeFetch =>
            AllBelowDispatched(Unwrap(lastFetch').offset, received, dispatched)
       /\ IsSome(confirm') /\ confirm' # confirm =>
            AllBelowDispatched(Unwrap(confirm').offset, received', dispatched')]_vars

\* The confirmation of a /shutdown that was the first update of a batch of
\* two was sent, the second update being received and still in the buffer.
C38_Witness ==
    /\ IsSome(confirm)
    /\ buffer # <<>>
    /\ Len(received) = 2
    /\ Len(dispatched) = 1
    /\ Rank(Unwrap(confirm).offset) = dispatched[1] + 1
    /\ Rank(Unwrap(confirm).offset) <= buffer[1]

====
